---- MODULE Spec2Model ----
(***************************************************************************)
(* Model of the analytics tools of the notes/tasks MCP server:             *)
(*   src/tools/productivity_tools.py  (dashboard, duplicate finder,        *)
(*                                     overdue report, content insights)   *)
(*   src/tools/tasks_tools.py         (get_task_statistics)                *)
(*                                                                         *)
(* Python values are modelled as follows.                                  *)
(*   str        a sequence of one-character strings, <<"a", " ", "A">>     *)
(*   None       the one-element sequence NoneVal                           *)
(*   missing    the one-element sequence Absent (a key the dict lacks)     *)
(*   float      a pair [num, den] of integers, den > 0 (an exact quotient) *)
(*   exception  the name of the exception class, "" when none was raised   *)
(***************************************************************************)
EXTENDS Integers, Sequences, FiniteSets, TLC

(***************************************************************************)
(* Bounds of the model.                                                    *)
(***************************************************************************)
\* Longest title and content of the notes the scorer is applied to.
MaxTitleLen == 2

MaxContentLen == 1

\* Longest record list a reply carries, per entry point.
MaxDashRecs == 2

MaxNotes == 3

MaxTasks == 3

\* Largest days_back a caller passes.
MaxDaysBack == 2

\* Longest note list with ids 1, 2, ... that find_duplicate_notes is given:
\* 7 notes make 21 pairs, one more than the 20 entries it reports.
MaxBulkNotes == 7

\* Longest note list fetched by one of two concurrent calls.
MaxConcNotes == 3

\* Longest list of routes the backend app defines.
MaxRoutes == 2

\* Longest list of overdue tasks a reply carries: one more than the "many overdue"
\* rule of the recommendations needs to fire.
MaxManyTasks == 6

(***************************************************************************)
(* Python values.                                                          *)
(***************************************************************************)
NoneVal == <<"<None>">>
Absent == <<"<absent>">>

Char == {"a", "A", " "}

IsStr(v) == v # NoneVal /\ v # Absent

RECURSIVE StrUpTo(_)
StrUpTo(n) ==
  IF n = 0 THEN {<<>>}
  ELSE LET shorter == StrUpTo(n - 1)
       IN shorter \cup {Append(s, c) : s \in {t \in shorter : Len(t) = n - 1}, c \in Char}

\* dict.get(key, default): the default only replaces a missing key, never a None.
DictGet(v, default) == IF v = Absent THEN default ELSE v

\* str.lower(), character by character.
LowerChar(c) == IF c = "A" THEN "a" ELSE c

Lower(s) == [i \in 1..Len(s) |-> LowerChar(s[i])]

IsSpace(c) == c = " "

\* str.strip(): leading and trailing whitespace removed.
RECURSIVE LStrip(_)
LStrip(s) == IF s # <<>> /\ IsSpace(Head(s)) THEN LStrip(Tail(s)) ELSE s

RECURSIVE RStrip(_)
RStrip(s) ==
  IF s # <<>> /\ IsSpace(s[Len(s)]) THEN RStrip(SubSeq(s, 1, Len(s) - 1)) ELSE s

Strip(s) == RStrip(LStrip(s))

\* str.split() with no separator: the maximal runs of non-whitespace, in order.
\* WordLen is the length of the run a text without leading whitespace starts with.
WordLen(s) ==
  CHOOSE n \in 1..Len(s) :
    /\ \A k \in 1..n : ~IsSpace(s[k])
    /\ (n = Len(s) \/ IsSpace(s[n + 1]))

RECURSIVE Split(_)
Split(s) ==
  LET rest == LStrip(s)
  IN IF rest = <<>> THEN <<>>
     ELSE <<SubSeq(rest, 1, WordLen(rest))>>
          \o Split(SubSeq(rest, WordLen(rest) + 1, Len(rest)))

\* set(list)
ToSet(seq) == {seq[i] : i \in 1..Len(seq)}

(***************************************************************************)
(* Floats that are quotients of small integers.                            *)
(***************************************************************************)
Rat(n, d) == [num |-> n, den |-> d]

Zero == Rat(0, 1)

RatEq(x, y) == x.num * y.den = y.num * x.den

RatLe(x, y) == x.num * y.den <= y.num * x.den

(***************************************************************************)
(* calculate_similarity, the closure of find_duplicate_notes.              *)
(***************************************************************************)
\* A variant that joins title and content without the separating space.
CombinedTextNoSpace(note) ==
  LET title == DictGet(note.title, <<>>)
      content == DictGet(note.content, <<>>)
  IN IF ~IsStr(title) \/ ~IsStr(content)
     THEN [exc |-> "TypeError", text |-> <<>>]
     ELSE [exc |-> "", text |-> Lower(title \o content)]

\* title + ' ' + content, lowered; str + None raises TypeError.
CombinedText(note) ==
  LET title == DictGet(note.title, <<>>)
      content == DictGet(note.content, <<>>)
  IN IF ~IsStr(title) \/ ~IsStr(content)
     THEN [exc |-> "TypeError", text |-> <<>>]
     ELSE [exc |-> "", text |-> Lower(title \o <<" ">> \o content)]

\* A variant that divides by the size of the first set instead of the union.
JaccardOverFirst(words1, words2) ==
  Rat(Cardinality(words1 \cap words2), Cardinality(words1))

\* len(intersection) / len(union) if union else 0.0
Jaccard(words1, words2) ==
  LET intersection == words1 \cap words2
      union == words1 \cup words2
  IN IF union # {} THEN Rat(Cardinality(intersection), Cardinality(union)) ELSE Zero

calculate_similarity(note1, note2) ==
  LET t1 == CombinedText(note1)
      t2 == CombinedText(note2)
  IN IF t1.exc # "" THEN [exc |-> t1.exc, value |-> Zero]
     ELSE IF t2.exc # "" THEN [exc |-> t2.exc, value |-> Zero]
     ELSE IF Strip(t1.text) = <<>> \/ Strip(t2.text) = <<>> THEN [exc |-> "", value |-> Zero]
     ELSE LET words1 == ToSet(Split(t1.text))
              words2 == ToSet(Split(t2.text))
          IN IF words1 = {} \/ words2 = {} THEN [exc |-> "", value |-> Zero]
             ELSE [exc |-> "", value |-> Jaccard(words1, words2)]

(***************************************************************************)
(* Records of the backend: one shape for notes and tasks.  A field the     *)
(* dict lacks is Absent (strings), "<absent>" (enumerations) or a value    *)
(* whose tag is "absent" (categories, timestamps).                         *)
(***************************************************************************)
\* Ticks per day: timestamps are integers counted in ticks, relative to NowTick.
TicksPerDay == 2

\* The value datetime.now(timezone.utc) returns during a request.
NowTick == 0

\* A timestamp field.  form: "absent" (no key), "none" (null), "empty" (""),
\* "number" (the JSON number t), "garbage" (a string that is no ISO-8601 timestamp),
\* "Z" / "offset" (ISO-8601 with a trailing Z / with +00:00), "naive" (no offset).
Stamp(form, t) == [form |-> form, t |-> t]

StampAbsent == Stamp("absent", 0)

\* Python truthiness of the field's value.
StampTruthy(s) == s.form \notin {"absent", "none", "empty"} /\ (s.form = "number" => s.t # 0)

\* A variant that reads every value as a timestamp with a UTC offset.
ParseStampLenient(s) == [exc |-> "", aware |-> TRUE, t |-> s.t]

\* datetime.fromisoformat(value.replace('Z', '+00:00'))
ParseStamp(s) ==
  CASE s.form = "number" -> [exc |-> "AttributeError", aware |-> FALSE, t |-> 0]
    [] s.form = "garbage" -> [exc |-> "ValueError", aware |-> FALSE, t |-> 0]
    [] s.form \in {"Z", "offset"} -> [exc |-> "", aware |-> TRUE, t |-> s.t]
    [] s.form = "naive" -> [exc |-> "", aware |-> FALSE, t |-> s.t]
    [] OTHER -> [exc |-> "AttributeError", aware |-> FALSE, t |-> 0]

\* A category field.  t: "absent", "none", "str", "dict" (name "<absent>" when the
\* dict has no name key), "emptydict".
Cat(t, name) == [t |-> t, name |-> name]

CatAbsent == Cat("absent", "")

CatTruthy(c) == c.t \in {"dict"} \/ (c.t = "str" /\ c.name # "")

\* note.get('id') of a note without an id (or with a null id): None.  Ids are
\* positive integers, ordered as the id strings are.
NoId == 0

BaseRec ==
  [isdict |-> TRUE, id |-> NoId, title |-> Absent, content |-> Absent,
   category |-> CatAbsent, created_at |-> StampAbsent, status |-> "<absent>",
   due_date |-> StampAbsent, priority |-> "<absent>"]

\* An element of the data list that is no JSON object (a string, a number).
NonDictRec == [BaseRec EXCEPT !.isdict = FALSE]

\* Sequences over S of length at most n.
RECURSIVE SeqUpTo(_, _)
SeqUpTo(S, n) ==
  IF n = 0 THEN {<<>>}
  ELSE LET shorter == SeqUpTo(S, n - 1)
       IN shorter \cup {Append(s, x) : s \in {t \in shorter : Len(t) = n - 1}, x \in S}

\* len([x for x in seq if P(x)])
CountIf(seq, P(_)) == Cardinality({i \in 1..Len(seq) : P(seq[i])})

\* collections.Counter over the keys key(seq[i]).
CounterOf(seq, key(_)) ==
  LET keys == {key(seq[i]) : i \in 1..Len(seq)}
  IN [k \in keys |-> Cardinality({i \in 1..Len(seq) : key(seq[i]) = k})]

(***************************************************************************)
(* Floats.  a / b of two ints is the double nearest to the quotient, and   *)
(* round(x, digits) rounds the exact value of that double to the nearest   *)
(* multiple of 1/scale, an exact tie to even.  The double differs from the *)
(* quotient by less than any distance that matters except when the         *)
(* quotient is a decimal tie: then the side the double lies on decides.    *)
(* The operators are exact for ints below 2^14.                            *)
(***************************************************************************)
\* floor(log2(a / b)) for positive a, b.
Log2Floor(a, b) ==
  IF a >= b THEN CHOOSE k \in 0..30 : b * 2^k <= a /\ a < b * 2^(k + 1)
  ELSE 0 - (CHOOSE k \in 1..30 : a * 2^k >= b /\ a * 2^(k - 1) < b)

\* 2^s modulo m.
RECURSIVE PowMod2(_, _)
PowMod2(s, m) ==
  IF s = 0 THEN 1 % m
  ELSE LET h == PowMod2(s \div 2, m)
       IN (((h * h) % m) * (IF s % 2 = 1 THEN 2 ELSE 1)) % m

\* (a * 2^s) modulo m.
ShiftMod(a, s, m) == ((a % m) * PowMod2(s, m)) % m

\* The double a / b for positive a, b: its binary exponent e, and err, the
\* numerator of (double - a/b) over b in units of 2^(e - 52): the quotient is
\* cut to 53 bits, rounded to nearest, a tie to the even mantissa.
FloatDiv(a, b) ==
  LET e == Log2Floor(a, b)
      r == ShiftMod(a, 52 - e, b)
      odd == ShiftMod(a, 52 - e, 2 * b) >= b
      up == 2 * r > b \/ (2 * r = b /\ odd)
  IN [e |-> e, err |-> IF r = 0 THEN 0 ELSE IF up THEN b - r ELSE 0 - r]

\* The side of the quotient 100 * a / b on which the double (a / b) * 100 lies:
\* 1 above, -1 below, 0 when it is the quotient.  The product of the double a / b
\* and 100 is rounded to 53 bits once more.
PercentSide(a, b) ==
  LET f == FloatDiv(a, b)
      e2 == Log2Floor(100 * a, b)
      g == e2 - f.e
      frac == ShiftMod(100 * a, 52 - e2, b)
      lo_odd == ShiftMod(100 * a, 52 - e2, 2 * b) >= b
      q == frac * 2^g + 100 * f.err
      den == b * 2^g
      power_of_two == IF e2 >= 0 THEN 100 * a = b * 2^e2 ELSE 100 * a * 2^(0 - e2) = b
  IN IF frac = 0
     THEN (IF 2 * q > den THEN 1
           ELSE IF q < 0 /\ (IF power_of_two THEN 0 - 4 * q > den ELSE 0 - 2 * q > den) THEN 0 - 1
           ELSE 0)
     ELSE IF 2 * q > den \/ (2 * q = den /\ lo_odd) THEN 1 ELSE 0 - 1

\* The multiple of 1/scale nearest to n / b, given the side of n / b on which the
\* float lies when n / b is halfway between two multiples.
RoundNearest(n, b, scale, side) ==
  LET q == (n * scale) \div b
      r == (n * scale) % b
  IN IF 2 * r < b THEN Rat(q, scale)
     ELSE IF 2 * r > b THEN Rat(q + 1, scale)
     ELSE IF side > 0 THEN Rat(q + 1, scale)
     ELSE IF side < 0 THEN Rat(q, scale)
     ELSE Rat(IF q % 2 = 0 THEN q ELSE q + 1, scale)

\* round(a / b, digits), x the quotient a / b.
RoundTo(x, scale) ==
  RoundNearest(x.num, x.den, scale, IF x.num = 0 THEN 0 ELSE FloatDiv(x.num, x.den).err)

\* round(a / b * 100, digits)
RoundPercentTo(a, b, scale) ==
  RoundNearest(100 * a, b, scale, IF a = 0 THEN 0 ELSE PercentSide(a, b))

(***************************************************************************)
(* Results: the JSON object an entry point returns.                        *)
(***************************************************************************)
ErrorResult(msg) == [kind |-> "error", error |-> msg]

NoResult == [kind |-> "none"]

(***************************************************************************)
(* The backend's reply and make_authenticated_request (src/auth_utils.py). *)
(***************************************************************************)
\* The data field of a JSON body.  t: "absent" (no data key), "null", "num", "str",
\* "dict", "list"; n is the number (num) or the length (str, dict); items is the list.
Data(t, n, items) == [t |-> t, n |-> n, items |-> items]

ListData(items) == Data("list", Len(items), items)

\* A JSON body.  top: "dict" (an object holding data), "emptydict" ({}), "null",
\* "list" (an array at top level).
Body(top, data) == [top |-> top, data |-> data]

NoBody == Body("null", Data("absent", 0, <<>>))

\* A reply.  net: "ok" or "error" (httpx.RequestError); status: the HTTP status;
\* json: whether response.json() can decode the body; detail: what an error reply
\* says went wrong ("" when it says nothing that matters).
Reply(net, status, json, body) ==
  [net |-> net, status |-> status, json |-> json, body |-> body, detail |-> ""]

ErrorDetailReply(status, detail) == [Reply("ok", status, TRUE, NoBody) EXCEPT !.detail = detail]

\* The texts the last except clause looks for in a message before it wraps it.
KeptUnwrapped(text) == text \in {"Authentication failed", "Authorization failed", "Rate limit"}

OkReply(body) == Reply("ok", 200, TRUE, body)

NoReply == Reply("none", 0, FALSE, NoBody)

\* A variant that returns the body of every reply that arrives.
ReturnsEveryBody(reply) ==
  IF reply.net = "error"
  THEN [exc |-> "Exception", msg |-> "Network error", value |-> NoBody]
  ELSE [exc |-> "", msg |-> "", value |-> reply.body]

\* What the call gives its caller: exc "" and the decoded body, or an Exception
\* with the start of its message.
make_authenticated_request(reply) ==
  IF reply.net = "error" THEN [exc |-> "Exception", msg |-> "Network error", value |-> NoBody]
  ELSE IF reply.status = 401 THEN [exc |-> "Exception", msg |-> "Authentication failed", value |-> NoBody]
  ELSE IF reply.status = 403 THEN [exc |-> "Exception", msg |-> "Authorization failed", value |-> NoBody]
  ELSE IF reply.status = 429 THEN [exc |-> "Exception", msg |-> "Rate limit exceeded", value |-> NoBody]
  ELSE IF reply.status >= 400
  THEN [exc |-> "Exception",
        msg |-> IF KeptUnwrapped(reply.detail) THEN "Request failed" ELSE "Request error",
        value |-> NoBody]
  ELSE IF ~reply.json THEN [exc |-> "Exception", msg |-> "Request error", value |-> NoBody]
  ELSE [exc |-> "", msg |-> "", value |-> reply.body]

\* result.get("data", []) of the other entry points: only a dict has get.
GetData(body) ==
  IF body.top \notin {"dict", "emptydict"} THEN [exc |-> "AttributeError", data |-> ListData(<<>>)]
  ELSE IF body.top = "emptydict" \/ body.data.t = "absent" THEN [exc |-> "", data |-> ListData(<<>>)]
  ELSE [exc |-> "", data |-> body.data]

\* len(x)
PyLen(d) ==
  IF d.t \in {"null", "num"} THEN [exc |-> "TypeError", n |-> 0]
  ELSE [exc |-> "", n |-> IF d.t = "list" THEN Len(d.items) ELSE d.n]

\* bool(x)
PyTruthy(d) ==
  CASE d.t = "null" -> FALSE
    [] d.t = "list" -> d.items # <<>>
    [] OTHER -> d.n # 0

\* except Exception: every exception class the handlers can meet derives from it
\* (UnicodeEncodeError is a ValueError).
ExceptionClasses ==
  {"Exception", "AttributeError", "TypeError", "ValueError", "ZeroDivisionError",
   "UnicodeEncodeError"}

CaughtByExceptException(exc) == exc \in ExceptionClasses

(***************************************************************************)
(* get_productivity_dashboard (src/tools/productivity_tools.py).           *)
(***************************************************************************)
\* notes_result.get("data", []) if notes_result and isinstance(notes_result, dict)
\* else [], then [] unless a list; a failed fetch gives [] too.
DashboardList(ret) ==
  IF ret.exc # "" THEN <<>>
  ELSE IF ret.value.top = "dict" /\ ret.value.data.t = "list" THEN ret.value.data.items
  ELSE <<>>

\* The attributes the class datetime.datetime has, among those the module looks up
\* on the name datetime (bound by "from datetime import datetime, timedelta, timezone").
DatetimeClassAttrs == {"now", "fromisoformat", "strftime", "isoformat"}

\* getattr(datetime, name)
DatetimeGetAttr(name) == IF name \in DatetimeClassAttrs THEN "" ELSE "AttributeError"

\* created_at >= start_date inside try / except: pass.  Comparing a naive datetime
\* with the aware start_date raises TypeError, which the except swallows.
CreatedSince(rec, start_date) ==
  /\ StampTruthy(rec.created_at)
  /\ LET created_at == ParseStamp(rec.created_at)
     IN created_at.exc = "" /\ created_at.aware /\ created_at.t >= start_date

\* The loops "for note in notes: if note.get('created_at'): ..." ; note.get on an
\* element that is no dict raises outside the inner try.
RecentOf(recs, start_date) ==
  IF \E i \in 1..Len(recs) : ~recs[i].isdict
  THEN [exc |-> "AttributeError", recent |-> <<>>]
  ELSE [exc |-> "", recent |-> SelectSeq(recs, LAMBDA r : CreatedSince(r, start_date))]

IsDone(task) == task.status = "done"

\* round(len(done) / len(all) * 100 if all else 0, 2)
CompletionRate(done, all) ==
  IF all # <<>> THEN RoundPercentTo(Len(done), Len(all), 100) ELSE Zero

\* The category name a note is counted under.
NoteCategory(note) ==
  IF note.category.t = "dict"
  THEN (IF note.category.name = "<absent>" THEN "Uncategorized" ELSE note.category.name)
  ELSE "Uncategorized"

\* The category name a task is counted under (a task's category is a string).
TaskCategory(task) ==
  IF CatTruthy(task.category) THEN task.category.name ELSE "Uncategorized"

\* task.get('status', 'unknown')
StatusKey(task) == IF task.status = "<absent>" THEN "unknown" ELSE task.status

\* created_at.strftime('%Y-%m-%d'): the calendar day of the timestamp, counted from
\* the day of now; now lies now_tick ticks after the midnight before it.
DayKey(rec, now_tick) == (ParseStamp(rec.created_at).t + now_tick) \div TicksPerDay

\* The keys counted by a Counter, in the order they are counted.
KeysOf(seq, key(_)) == [i \in 1..Len(seq) |-> key(seq[i])]

TopTen == 10

\* dict(Counter(keys).most_common(n)): the n keys with the highest counts, among
\* equal counts the keys counted first.
MostCommon(keys, n) ==
  LET counted == ToSet(keys)
      count(k) == Cardinality({i \in 1..Len(keys) : keys[i] = k})
      first(k) == CHOOSE i \in 1..Len(keys) : keys[i] = k /\ \A j \in 1..(i - 1) : keys[j] # k
      ahead(a, b) == count(a) > count(b) \/ (count(a) = count(b) /\ first(a) < first(b))
      keep == {k \in counted : Cardinality({o \in counted : ahead(o, k)}) < n}
  IN [k \in keep |-> count(k)]

\* The handler from "Calculate date range" to the return of the dashboard.
DashboardCompute(notes, tasks, days_back, now_tick) ==
  IF DatetimeGetAttr("timezone") # ""
  THEN [exc |-> DatetimeGetAttr("timezone"), result |-> NoResult]
  ELSE
  LET end_date == NowTick
      start_date == end_date - days_back * TicksPerDay
      rn == RecentOf(notes, start_date)
      rt == RecentOf(tasks, start_date)
      recent_notes == rn.recent
      recent_tasks == rt.recent
      completed_tasks == SelectSeq(tasks, IsDone)
      recent_completed_tasks == SelectSeq(recent_tasks, IsDone)
  IN IF rn.exc # "" THEN [exc |-> rn.exc, result |-> NoResult]
     ELSE IF rt.exc # "" THEN [exc |-> rt.exc, result |-> NoResult]
     ELSE IF \E i \in 1..Len(tasks) : tasks[i].category.t = "dict"
     THEN [exc |-> "TypeError", result |-> NoResult]
     ELSE IF days_back = 0 THEN [exc |-> "ZeroDivisionError", result |-> NoResult]
     ELSE [exc |-> "", result |->
            [kind |-> "dashboard",
             days_analyzed |-> days_back,
             total_notes |-> Len(notes),
             total_tasks |-> Len(tasks),
             recent_notes |-> Len(recent_notes),
             recent_tasks |-> Len(recent_tasks),
             notes_per_day |-> RoundTo(Rat(Len(recent_notes), days_back), 100),
             tasks_per_day |-> RoundTo(Rat(Len(recent_tasks), days_back), 100),
             total_completed |-> Len(completed_tasks),
             recent_completed |-> Len(recent_completed_tasks),
             overall_completion_rate |-> CompletionRate(completed_tasks, tasks),
             recent_completion_rate |-> CompletionRate(recent_completed_tasks, recent_tasks),
             status_distribution |-> CounterOf(tasks, StatusKey),
             note_categories |-> MostCommon(KeysOf(notes, NoteCategory), TopTen),
             task_categories |-> MostCommon(KeysOf(tasks, TaskCategory), TopTen),
             daily_activity |->
               [day \in {DayKey(recent_notes[i], now_tick) : i \in 1..Len(recent_notes)}
                        \cup {DayKey(recent_tasks[i], now_tick) : i \in 1..Len(recent_tasks)} |->
                  [notes |-> CountIf(recent_notes, LAMBDA r : DayKey(r, now_tick) = day),
                   tasks |-> CountIf(recent_tasks, LAMBDA r : DayKey(r, now_tick) = day)]]]]

(***************************************************************************)
(* find_duplicate_notes (src/tools/productivity_tools.py).                 *)
(***************************************************************************)
\* "Limit to top 20" and the length of a content preview.
TopDuplicates == 20

PreviewLimit == 100

\* tuple(sorted([id1, id2])); sorted compares the two, and None is not orderable.
PairKey(id1, id2) ==
  IF id1 = NoId \/ id2 = NoId THEN [exc |-> "TypeError", key |-> <<>>]
  ELSE [exc |-> "", key |-> IF id1 <= id2 THEN <<id1, id2>> ELSE <<id2, id1>>]

\* A variant that cuts a long content without marking the cut.
ContentPreviewUnmarked(note) ==
  LET content == DictGet(note.content, <<>>)
      text == IF content = NoneVal THEN <<>> ELSE content
  IN IF Len(text) > PreviewLimit THEN SubSeq(text, 1, PreviewLimit) ELSE content

\* (content or '')[:100] + "..." if len(content or '') > 100 else note.get('content', '')
ContentPreview(note) ==
  LET content == DictGet(note.content, <<>>)
      text == IF content = NoneVal THEN <<>> ELSE content
  IN IF Len(text) > PreviewLimit
     THEN SubSeq(text, 1, PreviewLimit) \o <<".", ".", ".">>
     ELSE content

\* note.get('category', {}).get('name') if note.get('category') else None
\* A category that is a non-empty string has no get.
CategoryNameOrNone(note) ==
  IF ~CatTruthy(note.category) THEN [exc |-> "", name |-> "<None>"]
  ELSE IF note.category.t = "str" THEN [exc |-> "AttributeError", name |-> "<None>"]
  ELSE [exc |-> "", name |-> IF note.category.name = "<absent>" THEN "<None>"
                             ELSE note.category.name]

NoteInfo(note) ==
  [id |-> note.id,
   title |-> DictGet(note.title, <<"U", "n", "t", "i", "t", "l", "e", "d">>),
   content_preview |-> ContentPreview(note),
   created_at |-> note.created_at,
   category |-> CategoryNameOrNone(note).name]

\* similarity >= similarity_threshold
MeetsThreshold(similarity, threshold) == RatLe(threshold, similarity)

\* A variant of the loops that visits neighbouring notes only.
PairsOfNeighbours(i, j, n) == [k \in 1..(n - 1) |-> <<k, k + 1>>]

\* The pairs (i, j), i < j, in the order the nested loops visit them.
RECURSIVE PairsFrom(_, _, _)
PairsFrom(i, j, n) ==
  IF i >= n THEN <<>>
  ELSE IF j > n THEN PairsFrom(i + 1, i + 2, n)
  ELSE <<<<i, j>>>> \o PairsFrom(i, j + 1, n)

\* One iteration of the inner loop on the pair (i, j); st holds exc, checked_pairs
\* and duplicates.
ScanPair(st, notes, i, j, threshold) ==
  IF st.exc # "" THEN st
  ELSE IF ~notes[i].isdict \/ ~notes[j].isdict THEN [st EXCEPT !.exc = "AttributeError"]
  ELSE
  LET pk == PairKey(notes[i].id, notes[j].id)
      sim == calculate_similarity(notes[i], notes[j])
      c1 == CategoryNameOrNone(notes[i])
      c2 == CategoryNameOrNone(notes[j])
  IN IF pk.exc # "" THEN [st EXCEPT !.exc = pk.exc]
     ELSE IF pk.key \in st.checked THEN st
     ELSE IF sim.exc # "" THEN [st EXCEPT !.exc = sim.exc, !.checked = @ \cup {pk.key}]
     ELSE IF ~MeetsThreshold(sim.value, threshold)
     THEN [st EXCEPT !.checked = @ \cup {pk.key}]
     ELSE IF c1.exc # "" THEN [st EXCEPT !.exc = c1.exc, !.checked = @ \cup {pk.key}]
     ELSE IF c2.exc # "" THEN [st EXCEPT !.exc = c2.exc, !.checked = @ \cup {pk.key}]
     ELSE [st EXCEPT !.checked = @ \cup {pk.key},
                     !.duplicates = Append(@,
                        [similarity_score |-> RoundTo(sim.value, 1000),
                         notes |-> <<NoteInfo(notes[i]), NoteInfo(notes[j])>>])]

RECURSIVE ScanPairs(_, _, _, _)
ScanPairs(st, notes, pairs, threshold) ==
  IF pairs = <<>> THEN st
  ELSE ScanPairs(ScanPair(st, notes, Head(pairs)[1], Head(pairs)[2], threshold),
                 notes, Tail(pairs), threshold)

\* list.sort(key=similarity_score, reverse=True): stable, highest score first.
RECURSIVE InsertByScore(_, _)
InsertByScore(sorted, e) ==
  IF sorted = <<>> THEN <<e>>
  ELSE IF RatLe(e.similarity_score, Head(sorted).similarity_score)
       THEN <<Head(sorted)>> \o InsertByScore(Tail(sorted), e)
       ELSE <<e>> \o sorted

\* A variant of the sort that leaves the entries in the order of the scan.
KeepScanOrder(seq) == seq

RECURSIVE SortByScoreDesc(_)
SortByScoreDesc(seq) ==
  IF seq = <<>> THEN <<>>
  ELSE InsertByScore(SortByScoreDesc(SubSeq(seq, 1, Len(seq) - 1)), seq[Len(seq)])

\* A variant of the slice that keeps the whole list.
TakeAll(seq, n) == seq

\* seq[:n]
Take(seq, n) == SubSeq(seq, 1, IF Len(seq) < n THEN Len(seq) ELSE n)

\* duplicates = [] and checked_pairs = set(): every call starts with its own.
NoPairsYet == [exc |-> "", checked |-> {}, duplicates |-> <<>>]

\* A variant that returns the message for an empty list only.
TooFewNotesOnlyEmpty(n) == n < 1

\* len(notes) < 2
TooFewNotes(n) == n < 2

\* The handler from notes_result.get("data", []) to its return.
FindDuplicates(body, threshold) ==
  LET got == GetData(body)
      notes == got.data
      size == PyLen(notes)
      scan == ScanPairs(NoPairsYet, notes.items, PairsFrom(1, 2, Len(notes.items)), threshold)
      duplicates == SortByScoreDesc(scan.duplicates)
  IN IF got.exc # "" THEN [exc |-> got.exc, result |-> NoResult]
     ELSE IF size.exc # "" THEN [exc |-> size.exc, result |-> NoResult]
     ELSE IF TooFewNotes(size.n)
     THEN [exc |-> "", result |-> [kind |-> "message", duplicates |-> <<>>,
                                   message |-> "Not enough notes to check for duplicates"]]
     ELSE IF notes.t = "str" THEN [exc |-> "AttributeError", result |-> NoResult]
     ELSE IF notes.t = "dict" THEN [exc |-> "TypeError", result |-> NoResult]
     ELSE IF scan.exc # "" THEN [exc |-> scan.exc, result |-> NoResult]
     ELSE [exc |-> "", result |->
            [kind |-> "duplicates",
             total_notes_analyzed |-> size.n,
             similarity_threshold |-> threshold,
             duplicate_groups_found |-> Len(duplicates),
             duplicates |-> Take(duplicates, TopDuplicates)]]

(***************************************************************************)
(* get_overdue_tasks_report and _generate_task_recommendations             *)
(* (src/tools/productivity_tools.py).                                      *)
(***************************************************************************)
\* "Due within a week", "due within 2 days", "many overdue tasks".
UpcomingDays == 7

UrgentDays == 2

ManyOverdue == 5

\* timedelta.days of a duration of d ticks: whole days, rounded down.
DaysOf(d) == d \div TicksPerDay

\* What one task contributes: "skip", "overdue" or "upcoming", with its task_info.
\* A due date that does not parse, or a naive one (its difference with the aware now
\* raises TypeError), is skipped by "except Exception: continue".
ClassifyTask(task, now) ==
  LET due_date == ParseStamp(task.due_date)
      info == [id |-> task.id,
               title |-> DictGet(task.title, <<"U", "n", "t", "i", "t", "l", "e", "d">>),
               status |-> task.status,
               priority |-> IF task.priority = "<absent>" THEN "medium" ELSE task.priority,
               category |-> task.category,
               due_date |-> task.due_date,
               days_difference |-> DaysOf(due_date.t - now),
               days_overdue |-> DaysOf(now - due_date.t),
               created_at |-> task.created_at]
  IN IF task.status = "done" THEN [list |-> "skip", info |-> info]
     ELSE IF ~StampTruthy(task.due_date) THEN [list |-> "skip", info |-> info]
     ELSE IF due_date.exc # "" \/ ~due_date.aware THEN [list |-> "skip", info |-> info]
     ELSE IF due_date.t < now THEN [list |-> "overdue", info |-> info]
     ELSE IF due_date.t <= now + UpcomingDays * TicksPerDay
     THEN [list |-> "upcoming", info |-> info]
     ELSE [list |-> "skip", info |-> info]

\* The task_info of the tasks classified as `list`, in the order of the tasks.
RECURSIVE Classified(_, _, _)
Classified(tasks, now, list) ==
  IF tasks = <<>> THEN <<>>
  ELSE LET c == ClassifyTask(Head(tasks), now)
       IN (IF c.list = list THEN <<c.info>> ELSE <<>>) \o Classified(Tail(tasks), now, list)

\* A stable sort by key, ascending: list.sort(key=...).  The keys are computed
\* once per element, as list.sort does.
RECURSIVE InsertKeyed(_, _)
InsertKeyed(sorted, e) ==
  IF sorted = <<>> THEN <<e>>
  ELSE IF Head(sorted).k <= e.k
       THEN <<Head(sorted)>> \o InsertKeyed(Tail(sorted), e)
       ELSE <<e>> \o sorted

RECURSIVE SortKeyed(_)
SortKeyed(seq) ==
  IF seq = <<>> THEN <<>>
  ELSE InsertKeyed(SortKeyed(SubSeq(seq, 1, Len(seq) - 1)), seq[Len(seq)])

SortByKey(seq, key(_)) ==
  LET sorted == SortKeyed([i \in 1..Len(seq) |-> [k |-> key(seq[i]), v |-> seq[i]]])
  IN [i \in 1..Len(seq) |-> sorted[i].v]

\* A variant that leaves the overdue tasks in the order of the reply.
KeepTaskOrder(seq) == seq

\* overdue_tasks.sort(key=days_overdue, reverse=True): stable, most overdue first.
SortOverdue(seq) == SortByKey(seq, LAMBDA x : 0 - x.days_overdue)

\* upcoming_tasks.sort(key=days_difference)
SortUpcoming(seq) == SortByKey(seq, LAMBDA x : x.days_difference)

\* A recommendation: the rule that produced it and the count its text carries
\* (0 for a text without a count).
Recommendation(rule, count) == [rule |-> rule, count |-> count]

_generate_task_recommendations(overdue_tasks, upcoming_tasks) ==
  LET high_priority_overdue == SelectSeq(overdue_tasks, LAMBDA t : t.priority = "high")
      urgent_upcoming == SelectSeq(upcoming_tasks, LAMBDA t : t.days_difference <= UrgentDays)
  IN (IF Len(overdue_tasks) > ManyOverdue THEN <<Recommendation("many_overdue", 0)>> ELSE <<>>)
     \o (IF overdue_tasks # <<>> /\ high_priority_overdue # <<>>
         THEN <<Recommendation("high_priority_overdue", Len(high_priority_overdue))>>
         ELSE <<>>)
     \o (IF upcoming_tasks # <<>> /\ urgent_upcoming # <<>>
         THEN <<Recommendation("due_within_2_days", Len(urgent_upcoming))>>
         ELSE <<>>)
     \o (IF overdue_tasks = <<>> /\ upcoming_tasks = <<>>
         THEN <<Recommendation("great_job", 0)>>
         ELSE <<>>)

\* A variant that counts every task of the reply.
AllTasksCount(tasks) == Len(tasks)

\* len([t for t in tasks if t.get('status') != 'done'])
ActiveTasks(tasks) == CountIf(tasks, LAMBDA t : t.status # "done")

\* The handler from tasks_result.get("data", []) to its return.
OverdueReport(body) ==
  LET got == GetData(body)
      tasks == got.data
      now == NowTick
      overdue_tasks == SortOverdue(Classified(tasks.items, now, "overdue"))
      upcoming_tasks == SortUpcoming(Classified(tasks.items, now, "upcoming"))
      total_active_tasks == ActiveTasks(tasks.items)
  IN IF got.exc # "" THEN [exc |-> got.exc, result |-> NoResult]
     ELSE IF ~PyTruthy(tasks)
     THEN [exc |-> "", result |-> [kind |-> "message", overdue_tasks |-> <<>>,
                                   upcoming_tasks |-> <<>>, message |-> "No tasks found"]]
     ELSE IF tasks.t = "num" THEN [exc |-> "TypeError", result |-> NoResult]
     ELSE IF tasks.t \in {"str", "dict"} THEN [exc |-> "AttributeError", result |-> NoResult]
     ELSE IF \E i \in 1..Len(tasks.items) : ~tasks.items[i].isdict
     THEN [exc |-> "AttributeError", result |-> NoResult]
     ELSE [exc |-> "", result |->
            [kind |-> "report",
             total_active_tasks |-> total_active_tasks,
             overdue_count |-> Len(overdue_tasks),
             upcoming_count |-> Len(upcoming_tasks),
             overdue_percentage |->
               IF total_active_tasks # 0
               THEN RoundPercentTo(Len(overdue_tasks), total_active_tasks, 100)
               ELSE Zero,
             overdue_tasks |-> overdue_tasks,
             upcoming_tasks |-> upcoming_tasks,
             recommendations |->
               _generate_task_recommendations(overdue_tasks, upcoming_tasks)]]

(***************************************************************************)
(* get_content_insights (src/tools/productivity_tools.py).                 *)
(***************************************************************************)
TopTopics == 20

\* A counted word is longer than this.
ShortWord == 2

\* The members of common_words that the model's alphabet can spell.
CommonWords == {<<"a">>}

\* note.get(key, '') or ''
TextOrEmpty(v) == IF v = Absent \/ v = NoneVal THEN <<>> ELSE v

\* The words of (title + ' ' + content).lower()
NoteWords(note) ==
  Split(Lower(TextOrEmpty(note.title) \o <<" ">> \o TextOrEmpty(note.content)))

\* len(combined_text)
NoteChars(note) == Len(TextOrEmpty(note.title)) + 1 + Len(TextOrEmpty(note.content))

\* len((note.get('content', '') or '').split())
ContentWords(note) == Len(Split(TextOrEmpty(note.content)))

\* note.get('category', {}).get('name', 'Uncategorized') if note.get('category')
\* else 'Uncategorized'
InsightCategory(note) ==
  IF ~CatTruthy(note.category) THEN "Uncategorized"
  ELSE IF note.category.name = "<absent>" THEN "Uncategorized"
  ELSE note.category.name

RECURSIVE SumOf(_)
SumOf(seq) == IF seq = <<>> THEN 0 ELSE Head(seq) + SumOf(Tail(seq))

\* The counted words of all notes, with repetitions, in order.
RECURSIVE CountedWords(_)
CountedWords(notes) ==
  IF notes = <<>> THEN <<>>
  ELSE SelectSeq(NoteWords(Head(notes)),
                 LAMBDA w : Len(w) > ShortWord /\ w \notin CommonWords)
       \o CountedWords(Tail(notes))

\* A variant that never takes the early return.
NoNotesNever(data) == FALSE

\* if not notes
NoNotes(data) == ~PyTruthy(data)

\* The handler from notes_result.get("data", []) to its return.
ContentInsights(body) ==
  LET got == GetData(body)
      data == got.data
      notes == data.items
      total_notes == Len(notes)
      note_lengths == [i \in 1..Len(notes) |-> Len(NoteWords(notes[i]))]
      total_words == SumOf(note_lengths)
      total_chars == SumOf([i \in 1..Len(notes) |-> NoteChars(notes[i])])
      avg_words_per_note == IF total_notes # 0 THEN Rat(total_words, total_notes) ELSE Zero
      avg_chars_per_note == IF total_notes # 0 THEN Rat(total_chars, total_notes) ELSE Zero
      sorted_lengths == SortByKey(note_lengths, LAMBDA n : n)
  IN IF got.exc # "" THEN [exc |-> got.exc, result |-> NoResult]
     ELSE IF NoNotes(data)
     THEN [exc |-> "", result |-> [kind |-> "message", insights |-> <<>>,
                                   message |-> "No notes found to analyze"]]
     ELSE IF data.t = "num" THEN [exc |-> "TypeError", result |-> NoResult]
     ELSE IF data.t \in {"str", "dict"} THEN [exc |-> "AttributeError", result |-> NoResult]
     ELSE IF \E i \in 1..Len(notes) : ~notes[i].isdict
     THEN [exc |-> "AttributeError", result |-> NoResult]
     ELSE IF \E i \in 1..Len(notes) : notes[i].category.t = "str" /\ CatTruthy(notes[i].category)
     THEN [exc |-> "AttributeError", result |-> NoResult]
     ELSE [exc |-> "", result |->
            [kind |-> "insights",
             content_statistics |->
               [total_notes |-> total_notes,
                total_words |-> total_words,
                total_characters |-> total_chars,
                average_words_per_note |-> RoundTo(avg_words_per_note, 100),
                average_characters_per_note |-> RoundTo(avg_chars_per_note, 100)],
             note_length_distribution |->
               [shortest_note_words |-> IF note_lengths # <<>> THEN sorted_lengths[1] ELSE 0,
                longest_note_words |->
                  IF note_lengths # <<>> THEN sorted_lengths[Len(sorted_lengths)] ELSE 0,
                median_note_words |->
                  IF note_lengths # <<>>
                  THEN sorted_lengths[(Len(sorted_lengths) \div 2) + 1] ELSE 0,
                average_note_words |-> RoundTo(avg_words_per_note, 100)],
             top_topics |-> MostCommon(CountedWords(notes), TopTopics),
             category_distribution |-> CounterOf(notes, InsightCategory),
             writing_patterns |->
               [notes_with_no_content |->
                  CountIf(notes, LAMBDA n : Strip(TextOrEmpty(n.content)) = <<>>),
                notes_with_long_content |->
                  CountIf(notes, LAMBDA n : ContentWords(n) * total_notes > 2 * total_words),
                notes_with_short_content |->
                  CountIf(notes, LAMBDA n : 2 * ContentWords(n) * total_notes < total_words)]]]

(***************************************************************************)
(* get_task_statistics (src/tools/tasks_tools.py).                         *)
(***************************************************************************)
\* A variant that takes the share of the todo tasks.
CompletionPercentageOfTodo(stats) ==
  IF stats.total > 0 THEN RoundPercentTo(stats.todo, stats.total, 10) ELSE Zero

\* round((done / total) * 100, 1) if total > 0 else 0
CompletionPercentage(stats) ==
  IF stats.total > 0 THEN RoundPercentTo(stats.done, stats.total, 10) ELSE Zero

\* The handler from result.get("data", []) to its return.
TaskStatistics(body) ==
  LET got == GetData(body)
      tasks == got.data
      size == PyLen(tasks)
      stats == [total |-> size.n,
                todo |-> CountIf(tasks.items, LAMBDA t : t.status = "todo"),
                in_progress |-> CountIf(tasks.items, LAMBDA t : t.status = "in_progress"),
                done |-> CountIf(tasks.items, LAMBDA t : t.status = "done")]
  IN IF got.exc # "" THEN [exc |-> got.exc, result |-> NoResult]
     ELSE IF size.exc # "" THEN [exc |-> size.exc, result |-> NoResult]
     ELSE IF tasks.t \in {"str", "dict"} /\ size.n > 0
     THEN [exc |-> "AttributeError", result |-> NoResult]
     ELSE IF \E i \in 1..Len(tasks.items) : ~tasks.items[i].isdict
     THEN [exc |-> "AttributeError", result |-> NoResult]
     ELSE [exc |-> "", result |->
            [kind |-> "stats", total |-> stats.total, todo |-> stats.todo,
             in_progress |-> stats.in_progress, done |-> stats.done,
             completion_percentage |-> CompletionPercentage(stats)]]

(***************************************************************************)
(* convert_user_id_to_token (src/auth_utils.py).  user_id and the token    *)
(* the login gives are "" (empty), "demo-user" (a name) or "jwt" (a string *)
(* with dots, longer than 50 characters).  login is what the login request *)
(* comes to: a token, "<None>" (refused, or failed with a plain message),  *)
(* or "<error latin-1>" / "<error cjk>" when the request raises with a     *)
(* message in those characters.                                            *)
(***************************************************************************)
LooksLikeJwt(user_id) == user_id = "jwt"

\* The encodings sys.stdout can have.
StdoutEncodings == {"utf-8", "ascii", "cp1252"}

\* Whether a stream of this encoding can write characters of this kind; print
\* raises UnicodeEncodeError when it cannot.  "dingbat" is U+274C.
Encodes(encoding, chars) ==
  \/ encoding = "utf-8"
  \/ chars = "ascii"
  \/ encoding = "cp1252" /\ chars = "latin-1"

\* get_jwt_token: except Exception as e: print(f"Login error: {e}"); return None.
\* An exception of that print leaves the function.
get_jwt_token(login, encoding) ==
  IF login \in {"<error latin-1>", "<error cjk>"}
  THEN [exc |-> IF Encodes(encoding, IF login = "<error cjk>" THEN "cjk" ELSE "latin-1")
                THEN "" ELSE "UnicodeEncodeError",
        token |-> "<None>"]
  ELSE [exc |-> "", token |-> login]

convert_user_id_to_token(user_id, login, encoding) ==
  IF LooksLikeJwt(user_id) THEN [exc |-> "", token |-> user_id]
  ELSE LET got == get_jwt_token(login, encoding)
       IN IF got.exc # "" THEN [exc |-> got.exc, token |-> ""]
          ELSE IF got.token # "<None>" /\ got.token # ""
               THEN [exc |-> "", token |-> got.token]
          ELSE [exc |-> "", token |-> user_id]

\* if not token
TokenFalsy(tok) == tok = ""

(***************************************************************************)
(* The outer try / except Exception of an entry point: what it returns for *)
(* the outcome `out` of its body, and whether the exception leaves it.     *)
(***************************************************************************)
Returned(out, error_msg) ==
  IF out.exc = "" THEN out.result
  ELSE IF CaughtByExceptException(out.exc) THEN ErrorResult(error_msg)
  ELSE NoResult

Escapes(out) == out.exc # "" /\ ~CaughtByExceptException(out.exc)

\* print of a text that starts with U+274C: the stream raises when its encoding
\* has no such character.
PrintCrossMark(encoding) ==
  IF Encodes(encoding, "dingbat") THEN "" ELSE "UnicodeEncodeError"

\* The except clause of get_productivity_dashboard prints before it returns: an
\* exception of the print leaves the entry point.
DashboardOutcome(out, encoding) ==
  IF out.exc # "" /\ CaughtByExceptException(out.exc) /\ PrintCrossMark(encoding) # ""
  THEN [exc |-> PrintCrossMark(encoding), escaped |-> TRUE, result |-> NoResult]
  ELSE [exc |-> out.exc, escaped |-> Escapes(out),
        result |-> Returned(out, "Failed to generate productivity dashboard")]

\* The body of an entry point after its fetch: the fetch raises into the outer try.
AfterFetch(ret, body(_)) ==
  IF ret.exc # "" THEN [exc |-> ret.exc, result |-> NoResult] ELSE body(ret.value)

(***************************************************************************)
(* State.                                                                  *)
(***************************************************************************)
VARIABLES
  pc,         \* where the request is: "idle", "token", "notes", "tasks", "done"
  op,         \* the entry point called, "" when idle
  days_back,  \* argument of get_productivity_dashboard
  threshold,  \* argument similarity_threshold of find_duplicate_notes
  token,      \* the handler's token
  notes,      \* get_productivity_dashboard: its list notes, once fetched
  notesReply, \* what the backend answered to GET /api/v1/notes/
  tasksReply, \* what the backend answered to GET /api/v1/tasks/
  raised,     \* the exception that reached the outer try of the handler, "" if none
  escaped,    \* whether an exception left the entry point
  now_of_day, \* the ticks since midnight of the datetime.now() the dashboard read
  result,     \* what the entry point returned
  simPc,      \* scorer run: "ready" before calculate_similarity is applied, "scored" after
  simA,       \* scorer run: first note
  simB,       \* scorer run: second note
  simOut,     \* scorer run: what calculate_similarity(simA, simB) gave
  cpc,        \* concurrent callers: where each caller's request is
  cop,        \* concurrent callers: the entry point each caller invoked
  cthreshold, \* concurrent callers: each call's similarity_threshold
  ctoken,     \* concurrent callers: each call's token
  creply,     \* concurrent callers: what the backend answered to each call's fetch
  craised,    \* concurrent callers: the exception that reached each call's outer try
  cresult,    \* concurrent callers: what each call returned
  tpc,        \* task tools: "idle", "token", "request" (a request is out), "done"
  tname,      \* task tools: the tool called, "" when idle
  targs,      \* task tools: the arguments of the call
  ttoken,     \* task tools: the token the request is sent with
  tsent,      \* task tools: the requests sent to the backend, in order
  treply,     \* task tools: what the backend answered
  tfetch,     \* task tools: what make_authenticated_request gave the tool
  tresult,    \* task tools: what the tool returned
  spc,        \* server.py: how far the module has been loaded
  app_routes,    \* server.py: the routes app.main defined on its router
  fastapi_app,   \* server.py: "app", or "None" when app.main could not be used
  router_routes, \* server.py: fastapi_app.router.routes
  reported_blocked, \* server.py: the number of blocked routes it prints
  defined,    \* server.py: the register_* functions its imports have defined
  mcp         \* server.py: the server object, NoMcp before it is created

reqVars == <<pc, op, days_back, threshold, token, notes, notesReply, tasksReply,
             raised, escaped, now_of_day, result>>

simVars == <<simPc, simA, simB, simOut>>

concVars == <<cpc, cop, cthreshold, ctoken, creply, craised, cresult>>

taskVars == <<tpc, tname, targs, ttoken, tsent, treply, tfetch, tresult>>

serverVars == <<spc, app_routes, fastapi_app, router_routes, reported_blocked, defined, mcp>>

vars == <<pc, op, days_back, threshold, token, notes, notesReply, tasksReply,
          raised, escaped, now_of_day, result, simPc, simA, simB, simOut,
          cpc, cop, cthreshold, ctoken, creply, craised, cresult,
          tpc, tname, targs, ttoken, tsent, treply, tfetch, tresult,
          spc, app_routes, fastapi_app, router_routes, reported_blocked, defined, mcp>>

NoOutcome == [exc |-> "<not run>", value |-> Zero]

\* Defaults of the arguments: days_back = 7, similarity_threshold = 0.8.
DefaultDaysBack == 7

DefaultThreshold == Rat(8, 10)

Idle ==
  /\ pc = "idle"
  /\ op = ""
  /\ days_back = DefaultDaysBack
  /\ threshold = DefaultThreshold
  /\ token = ""
  /\ notes = <<>>
  /\ notesReply = NoReply
  /\ tasksReply = NoReply
  /\ raised = ""
  /\ escaped = FALSE
  /\ now_of_day = 0
  /\ result = NoResult

SimIdle ==
  /\ simPc = "off"
  /\ simA = [title |-> Absent, content |-> Absent]
  /\ simB = [title |-> Absent, content |-> Absent]
  /\ simOut = NoOutcome

\* The callers that have requests in flight at the same time.
Callers == {1, 2}

ConcIdle ==
  /\ cpc = [c \in Callers |-> "idle"]
  /\ cop = [c \in Callers |-> ""]
  /\ cthreshold = [c \in Callers |-> DefaultThreshold]
  /\ ctoken = [c \in Callers |-> ""]
  /\ creply = [c \in Callers |-> NoReply]
  /\ craised = [c \in Callers |-> ""]
  /\ cresult = [c \in Callers |-> NoResult]

\* A request body without a key: the dict has no such entry.
NoTaskData == [title |-> "<absent>", description |-> "<absent>", status |-> "<absent>"]

NoTaskArgs == [title |-> "<None>", description |-> "<None>", status |-> "<None>",
               user_id |-> ""]

NoFetch == [exc |-> "<not run>", msg |-> "", value |-> NoBody]

TaskIdle ==
  /\ tpc = "idle"
  /\ tname = ""
  /\ targs = NoTaskArgs
  /\ ttoken = ""
  /\ tsent = <<>>
  /\ treply = NoReply
  /\ tfetch = NoFetch
  /\ tresult = NoResult

NoMcp == [kind |-> "None", tools |-> {}, resources |-> {}, routes |-> <<>>]

ServerIdle ==
  /\ spc = "start"
  /\ app_routes = <<>>
  /\ fastapi_app = "None"
  /\ router_routes = <<>>
  /\ reported_blocked = 0
  /\ defined = {}
  /\ mcp = NoMcp

(***************************************************************************)
(* The inputs: what callers pass and what the backend answers.             *)
(***************************************************************************)
UserIds == {"", "demo-user", "jwt"}

Logins == {"<None>", "jwt", "<error latin-1>", "<error cjk>"}

Thresholds == {Rat(0, 10), Rat(5, 10), Rat(8, 10), Rat(10, 10)}

\* Replies that make make_authenticated_request raise.
FailReplies ==
  {Reply("error", 0, FALSE, NoBody)}
  \cup {Reply("ok", st, TRUE, NoBody) : st \in {401, 403, 429, 500}}
  \cup {Reply("ok", 200, FALSE, NoBody)}

\* Successful replies whose body is not {data: [...]}.
ShapeReplies ==
  {OkReply(Body(top, Data("absent", 0, <<>>))) : top \in {"null", "list", "emptydict", "dict"}}
  \cup {OkReply(Body("dict", Data(t, n, <<>>))) : t \in {"num", "str", "dict"}, n \in {0, 2}}
  \cup {OkReply(Body("dict", Data("null", 0, <<>>)))}

ListReplies(recs, n) == {OkReply(Body("dict", ListData(items))) : items \in SeqUpTo(recs, n)}

\* The backend verifies the token: only a JWT is ever answered with a success.
RepliesTo(tok, recs, n) ==
  IF tok = "jwt" THEN FailReplies \cup ShapeReplies \cup ListReplies(recs, n)
  ELSE FailReplies

Z(t) == Stamp("Z", t)

Work == Cat("dict", "work")

\* Notes and tasks of the dashboard, placed around the window of d days.
DashNotes(d) ==
  {[BaseRec EXCEPT !.created_at = Z(NowTick - d * TicksPerDay), !.category = Work],
   [BaseRec EXCEPT !.created_at = Z(NowTick - (d + 1) * TicksPerDay)],
   [BaseRec EXCEPT !.created_at = Z(NowTick + 1), !.category = Cat("none", "")],
   [BaseRec EXCEPT !.category = Work],
   [BaseRec EXCEPT !.created_at = Stamp("garbage", 0)]}

DashTasks(d) ==
  {[BaseRec EXCEPT !.created_at = Z(NowTick - d * TicksPerDay), !.status = "done"],
   [BaseRec EXCEPT !.created_at = Z(NowTick - d * TicksPerDay - 1), !.status = "todo",
                   !.category = Cat("str", "home")],
   [BaseRec EXCEPT !.created_at = Z(NowTick), !.status = "in_progress"],
   [BaseRec EXCEPT !.status = "done"],
   [BaseRec EXCEPT !.created_at = Stamp("naive", NowTick)]}

Text(title, content) == [BaseRec EXCEPT !.title = title, !.content = content]

\* Notes of the duplicate finder: equal, overlapping and empty texts, ids that
\* repeat, a null title, a missing id, categories, an element that is no object.
DupNotes ==
  {[Text(t[1], t[2]) EXCEPT !.id = i] :
     i \in {1, 2, 3},
     t \in {<<<<"a">>, <<"a", "a">>>>, <<<<"A">>, <<"a", "a">>>>, <<<<"a">>, <<>>>>}}
  \cup {[Text(Absent, <<"a", "a">>) EXCEPT !.id = 1],
        [Text(<<>>, <<>>) EXCEPT !.id = 1],
        [Text(NoneVal, <<"a">>) EXCEPT !.id = 1],
        Text(<<"a">>, <<"a", "a">>),
        [Text(<<"a">>, <<"a", "a">>) EXCEPT !.id = 2, !.category = Cat("str", "work")],
        [Text(<<"a">>, <<>>) EXCEPT !.id = 2, !.category = Work],
        [Text(<<"a">>, <<"a", "a">>) EXCEPT !.id = 3, !.category = Work],
        NonDictRec}

\* A content of n characters without a space.
Long(n) == [i \in 1..n |-> "a"]

\* Note lists with the ids 1, 2, ... in order and the texts given by f.
Numbered(f) == [i \in DOMAIN f |-> [Text(f[i][1], f[i][2]) EXCEPT !.id = i]]

\* Up to MaxBulkNotes notes with one of two texts that score 1/2 with each other.
BulkTexts == {<<<<"a">>, <<"a", "a">>>>, <<<<"a">>, <<>>>>}

BulkLists == UNION {{Numbered(f) : f \in [1..n -> BulkTexts]} : n \in 2..MaxBulkNotes}

\* Two notes whose content is at, or one past, the length of a preview, missing or
\* null, or whose title and content are whitespace only.
PreviewTexts ==
  {<<<<"a">>, <<"a", "a">>>>, <<<<"a">>, Long(PreviewLimit)>>, <<<<"a">>, Long(PreviewLimit + 1)>>,
   <<<<"a">>, Absent>>, <<<<"a">>, NoneVal>>, <<<<" ">>, <<" ">>>>}

PreviewLists == {Numbered(f) : f \in [1..2 -> PreviewTexts]}

\* The longest list with one pair of notes that share no word, every other pair
\* sharing one word of two: of 21 pairs, 20 score 1/2.
CapList ==
  Numbered([i \in 1..MaxBulkNotes |->
              IF i = 1 THEN <<<<"a">>, <<>>>>
              ELSE IF i = 2 THEN <<<<"a", "a">>, <<>>>>
              ELSE <<<<"a">>, <<"a", "a">>>>])

\* What the backend answers to the notes fetch of find_duplicate_notes.
DupReplies(tok) ==
  RepliesTo(tok, DupNotes, MaxNotes)
  \cup (IF tok = "jwt"
        THEN {OkReply(Body("dict", ListData(items))) : items \in BulkLists \cup PreviewLists \cup {CapList}}
        ELSE {})

Task(status, due, priority) ==
  [BaseRec EXCEPT !.status = status, !.due_date = due, !.priority = priority]

\* Tasks of the overdue report, placed around now and the end of the coming week.
OverdueTasks ==
  {Task("todo", Z(NowTick - TicksPerDay), "high"),
   Task("todo", Z(NowTick - 1), "<absent>"),
   Task("in_progress", Z(NowTick + 3 * TicksPerDay), "low"),
   Task("todo", Z(NowTick + UpcomingDays * TicksPerDay), "<absent>"),
   Task("todo", Z(NowTick + UpcomingDays * TicksPerDay + 1), "<absent>"),
   Task("todo", Z(NowTick), "medium"),
   Task("done", Z(NowTick - TicksPerDay), "high"),
   Task("todo", StampAbsent, "<absent>"),
   Task("todo", Stamp("garbage", 0), "<absent>"),
   Task("todo", Stamp("number", 5), "high"),
   Task("todo", Stamp("naive", NowTick - TicksPerDay), "<absent>"),
   Task("<absent>", Z(NowTick + 1), "high"),
   Task("todo", Z(NowTick + UrgentDays * TicksPerDay + 1), "<absent>"),
   NonDictRec}

\* Lists of overdue tasks around the size at which the "many overdue" rule fires.
ManyTaskLists ==
  UNION {[1..n -> {Task("todo", Z(NowTick - TicksPerDay), "high"),
                   Task("todo", Z(NowTick - 1), "<absent>")}] : n \in ManyOverdue..MaxManyTasks}

\* What the backend answers to the tasks fetch of get_overdue_tasks_report.
OverdueReplies(tok) ==
  RepliesTo(tok, OverdueTasks, MaxTasks)
  \cup (IF tok = "jwt"
        THEN {OkReply(Body("dict", ListData(items))) : items \in ManyTaskLists}
        ELSE {})

InsightNotes ==
  {Text(<<"a">>, <<"a", "a">>),
   Text(Absent, NoneVal),
   Text(<<"A", " ">>, <<>>),
   [Text(<<"a", "a", "a">>, <<"a", " ", "a">>) EXCEPT !.category = Work],
   [Text(<<"a">>, <<"a">>) EXCEPT !.category = Cat("str", "work")],
   NonDictRec}

StatTasks ==
  {Task(st, StampAbsent, "<absent>") : st \in {"todo", "in_progress", "done", "<absent>"}}
  \cup {NonDictRec}

(***************************************************************************)
(* Spec: one request at a time through the entry points.  A step is the    *)
(* code between two awaits of the handler.                                 *)
(***************************************************************************)
Init == Idle /\ SimIdle /\ ConcIdle /\ TaskIdle /\ ServerIdle

\* A caller invokes an entry point.  get_task_statistics passes user_id to the
\* backend as the token, without convert_user_id_to_token.
CallDashboard ==
  /\ pc = "idle"
  /\ \E d \in 0..MaxDaysBack : days_back' = d
  /\ op' = "get_productivity_dashboard"
  /\ pc' = "token"
  /\ UNCHANGED <<threshold, token, notes, notesReply, tasksReply, raised, escaped, now_of_day, result>>

CallFindDuplicates ==
  /\ pc = "idle"
  /\ \E th \in Thresholds : threshold' = th
  /\ op' = "find_duplicate_notes"
  /\ pc' = "token"
  /\ UNCHANGED <<days_back, token, notes, notesReply, tasksReply, raised, escaped, now_of_day, result>>

CallOverdueReport ==
  /\ pc = "idle"
  /\ op' = "get_overdue_tasks_report"
  /\ pc' = "token"
  /\ UNCHANGED <<days_back, threshold, token, notes, notesReply, tasksReply, raised,
                 escaped, now_of_day, result>>

CallContentInsights ==
  /\ pc = "idle"
  /\ op' = "get_content_insights"
  /\ pc' = "token"
  /\ UNCHANGED <<days_back, threshold, token, notes, notesReply, tasksReply, raised,
                 escaped, now_of_day, result>>

CallTaskStatistics ==
  /\ pc = "idle"
  /\ \E user_id \in UserIds : token' = user_id
  /\ op' = "get_task_statistics"
  /\ pc' = "tasks"
  /\ UNCHANGED <<days_back, threshold, notes, notesReply, tasksReply, raised, escaped, now_of_day, result>>

\* The message of an entry point's except clause.
ToolErrorMsg(name) ==
  IF name = "get_productivity_dashboard" THEN "Failed to generate productivity dashboard"
  ELSE IF name = "find_duplicate_notes" THEN "Failed to find duplicate notes"
  ELSE IF name = "get_overdue_tasks_report" THEN "Failed to generate overdue tasks report"
  ELSE "Failed to generate content insights"

\* await convert_user_id_to_token(user_id), inside the outer try: when it raises,
\* the except clause ends the call (the dashboard's prints first, on the same
\* stdout).  The dashboard alone returns an error for a falsy token.
ConvertToken ==
  /\ pc = "token"
  /\ \E user_id \in UserIds, login \in Logins, encoding \in StdoutEncodings :
       LET conv == convert_user_id_to_token(user_id, login, encoding)
           tok == conv.token
           out == IF op = "get_productivity_dashboard"
                  THEN DashboardOutcome([exc |-> conv.exc], encoding)
                  ELSE [exc |-> conv.exc, escaped |-> FALSE,
                        result |-> ErrorResult(ToolErrorMsg(op))]
       IN IF conv.exc # ""
          THEN /\ token' = token
               /\ raised' = out.exc
               /\ escaped' = out.escaped
               /\ result' = out.result
               /\ pc' = "done"
          ELSE /\ token' = tok
               /\ raised' = raised
               /\ escaped' = escaped
               /\ IF op = "get_productivity_dashboard" /\ TokenFalsy(tok)
                  THEN /\ result' = ErrorResult("Failed to get valid authentication token")
                       /\ pc' = "done"
                  ELSE /\ result' = result
                       /\ pc' = IF op = "get_overdue_tasks_report" THEN "tasks" ELSE "notes"
  /\ UNCHANGED <<op, days_back, threshold, notes, notesReply, tasksReply, now_of_day>>

\* get_productivity_dashboard: the notes fetch in its own try / except.
DashFetchNotes ==
  /\ pc = "notes"
  /\ op = "get_productivity_dashboard"
  /\ \E reply \in RepliesTo(token, DashNotes(days_back), MaxDashRecs) :
       /\ notesReply' = reply
       /\ notes' = DashboardList(make_authenticated_request(reply))
  /\ pc' = "tasks"
  /\ UNCHANGED <<op, days_back, threshold, token, tasksReply, raised, escaped, now_of_day, result>>

\* get_productivity_dashboard: the tasks fetch in its own try / except, and the
\* rest of the handler.
DashFetchTasks ==
  /\ pc = "tasks"
  /\ op = "get_productivity_dashboard"
  /\ \E reply \in RepliesTo(token, DashTasks(days_back), MaxDashRecs),
        now_tick \in 0..(TicksPerDay - 1), encoding \in StdoutEncodings :
       LET tasks == DashboardList(make_authenticated_request(reply))
           end == DashboardOutcome(DashboardCompute(notes, tasks, days_back, now_tick),
                                   encoding)
       IN /\ tasksReply' = reply
          /\ now_of_day' = IF DatetimeGetAttr("timezone") = "" THEN now_tick ELSE now_of_day
          /\ raised' = end.exc
          /\ escaped' = end.escaped
          /\ result' = end.result
  /\ pc' = "done"
  /\ UNCHANGED <<op, days_back, threshold, token, notes, notesReply>>

FindDuplicatesFetch ==
  /\ pc = "notes"
  /\ op = "find_duplicate_notes"
  /\ \E reply \in DupReplies(token) :
       LET out == AfterFetch(make_authenticated_request(reply),
                             LAMBDA body : FindDuplicates(body, threshold))
       IN /\ notesReply' = reply
          /\ raised' = out.exc
          /\ escaped' = Escapes(out)
          /\ result' = Returned(out, "Failed to find duplicate notes")
  /\ pc' = "done"
  /\ UNCHANGED <<op, days_back, threshold, token, notes, tasksReply, now_of_day>>

OverdueReportFetch ==
  /\ pc = "tasks"
  /\ op = "get_overdue_tasks_report"
  /\ \E reply \in OverdueReplies(token) :
       LET out == AfterFetch(make_authenticated_request(reply), OverdueReport)
       IN /\ tasksReply' = reply
          /\ raised' = out.exc
          /\ escaped' = Escapes(out)
          /\ result' = Returned(out, "Failed to generate overdue tasks report")
  /\ pc' = "done"
  /\ UNCHANGED <<op, days_back, threshold, token, notes, notesReply, now_of_day>>

ContentInsightsFetch ==
  /\ pc = "notes"
  /\ op = "get_content_insights"
  /\ \E reply \in RepliesTo(token, InsightNotes, MaxNotes) :
       LET out == AfterFetch(make_authenticated_request(reply), ContentInsights)
       IN /\ notesReply' = reply
          /\ raised' = out.exc
          /\ escaped' = Escapes(out)
          /\ result' = Returned(out, "Failed to generate content insights")
  /\ pc' = "done"
  /\ UNCHANGED <<op, days_back, threshold, token, notes, tasksReply, now_of_day>>

TaskStatisticsFetch ==
  /\ pc = "tasks"
  /\ op = "get_task_statistics"
  /\ \E reply \in RepliesTo(token, StatTasks, MaxTasks) :
       LET out == AfterFetch(make_authenticated_request(reply), TaskStatistics)
       IN /\ tasksReply' = reply
          /\ raised' = out.exc
          /\ escaped' = Escapes(out)
          /\ result' = Returned(out, "Failed to get task statistics")
  /\ pc' = "done"
  /\ UNCHANGED <<op, days_back, threshold, token, notes, notesReply, now_of_day>>

\* The caller has the result; the handler keeps nothing.
Return ==
  /\ pc = "done"
  /\ pc' = "idle"
  /\ op' = ""
  /\ days_back' = DefaultDaysBack
  /\ threshold' = DefaultThreshold
  /\ token' = ""
  /\ notes' = <<>>
  /\ notesReply' = NoReply
  /\ tasksReply' = NoReply
  /\ raised' = ""
  /\ escaped' = FALSE
  /\ now_of_day' = 0
  /\ result' = NoResult

Next ==
  \/ (CallDashboard /\ UNCHANGED <<simVars, concVars, taskVars, serverVars>>)
  \/ (CallFindDuplicates /\ UNCHANGED <<simVars, concVars, taskVars, serverVars>>)
  \/ (CallOverdueReport /\ UNCHANGED <<simVars, concVars, taskVars, serverVars>>)
  \/ (CallContentInsights /\ UNCHANGED <<simVars, concVars, taskVars, serverVars>>)
  \/ (CallTaskStatistics /\ UNCHANGED <<simVars, concVars, taskVars, serverVars>>)
  \/ (ConvertToken /\ UNCHANGED <<simVars, concVars, taskVars, serverVars>>)
  \/ (DashFetchNotes /\ UNCHANGED <<simVars, concVars, taskVars, serverVars>>)
  \/ (DashFetchTasks /\ UNCHANGED <<simVars, concVars, taskVars, serverVars>>)
  \/ (FindDuplicatesFetch /\ UNCHANGED <<simVars, concVars, taskVars, serverVars>>)
  \/ (OverdueReportFetch /\ UNCHANGED <<simVars, concVars, taskVars, serverVars>>)
  \/ (ContentInsightsFetch /\ UNCHANGED <<simVars, concVars, taskVars, serverVars>>)
  \/ (TaskStatisticsFetch /\ UNCHANGED <<simVars, concVars, taskVars, serverVars>>)
  \/ (Return /\ UNCHANGED <<simVars, concVars, taskVars, serverVars>>)

Spec == Init /\ [][Next]_vars

(***************************************************************************)
(* SpecSim: calculate_similarity applied to a pair of notes.               *)
(***************************************************************************)
SimTitles == StrUpTo(MaxTitleLen) \cup {NoneVal, Absent}

SimContents == StrUpTo(MaxContentLen) \cup {NoneVal, Absent}

SimNotes == [title : SimTitles, content : SimContents]

SimInit ==
  /\ Idle
  /\ ConcIdle
  /\ TaskIdle
  /\ ServerIdle
  /\ simPc = "ready"
  /\ simA \in SimNotes
  /\ simB \in SimNotes
  /\ simOut = NoOutcome

Score ==
  /\ simPc = "ready"
  /\ simOut' = calculate_similarity(simA, simB)
  /\ simPc' = "scored"
  /\ UNCHANGED <<simA, simB>>
  /\ UNCHANGED <<reqVars, concVars, taskVars, serverVars>>

SimNext == Score

SpecSim == SimInit /\ [][SimNext]_vars

(***************************************************************************)
(* SpecConc: two callers whose requests to find_duplicate_notes and        *)
(* get_overdue_tasks_report interleave at the awaits of the handlers.  The *)
(* event loop runs the code between two awaits of one handler as a step.   *)
(***************************************************************************)
ConcOps == {"find_duplicate_notes", "get_overdue_tasks_report"}

ConcThresholds == {Rat(5, 10), Rat(8, 10)}

ConcNotes ==
  {[Text(<<"a">>, <<"a", "a">>) EXCEPT !.id = 1],
   [Text(<<"a">>, <<>>) EXCEPT !.id = 2],
   [Text(<<"A">>, <<"a", "a">>) EXCEPT !.id = 3]}

ConcTasks ==
  {Task("todo", Z(NowTick - TicksPerDay), "high"), Task("todo", Z(NowTick + 1), "low")}

\* What the backend answers to the fetch of a call.
ConcReplies(tok, name) ==
  IF tok # "jwt" THEN {Reply("ok", 401, TRUE, NoBody)}
  ELSE IF name = "find_duplicate_notes"
  THEN {Reply("ok", 500, TRUE, NoBody)} \cup ListReplies(ConcNotes, MaxConcNotes)
  ELSE ListReplies(ConcTasks, 2)

\* notes_result / tasks_result: a local of the call.
notes_result(c, replies) == replies[c]

\* What the call of caller c makes of the replies, from its fetch to its return.
ConcOutcome(c, replies) ==
  IF cop[c] = "find_duplicate_notes"
  THEN AfterFetch(make_authenticated_request(notes_result(c, replies)),
                  LAMBDA body : FindDuplicates(body, cthreshold[c]))
  ELSE AfterFetch(make_authenticated_request(notes_result(c, replies)), OverdueReport)

ConcCall(c) ==
  /\ cpc[c] = "idle"
  /\ \E name \in ConcOps, th \in ConcThresholds :
       /\ cop' = [cop EXCEPT ![c] = name]
       /\ cthreshold' = [cthreshold EXCEPT ![c] =
                           IF name = "find_duplicate_notes" THEN th ELSE DefaultThreshold]
  /\ cpc' = [cpc EXCEPT ![c] = "token"]
  /\ UNCHANGED <<ctoken, creply, craised, cresult>>

ConcConvertToken(c) ==
  /\ cpc[c] = "token"
  /\ \E user_id \in UserIds, login \in Logins, encoding \in StdoutEncodings :
       LET conv == convert_user_id_to_token(user_id, login, encoding)
       IN IF conv.exc # ""
          THEN /\ ctoken' = ctoken
               /\ craised' = [craised EXCEPT ![c] = conv.exc]
               /\ cresult' = [cresult EXCEPT ![c] = ErrorResult(ToolErrorMsg(cop[c]))]
               /\ cpc' = [cpc EXCEPT ![c] = "done"]
          ELSE /\ ctoken' = [ctoken EXCEPT ![c] = conv.token]
               /\ craised' = craised
               /\ cresult' = cresult
               /\ cpc' = [cpc EXCEPT ![c] = "fetch"]
  /\ UNCHANGED <<cop, cthreshold, creply>>

ConcFetch(c) ==
  /\ cpc[c] = "fetch"
  /\ \E reply \in ConcReplies(ctoken[c], cop[c]) :
       LET replies == [creply EXCEPT ![c] = reply]
           out == ConcOutcome(c, replies)
       IN /\ creply' = replies
          /\ craised' = [craised EXCEPT ![c] = out.exc]
          /\ cresult' = [cresult EXCEPT ![c] = Returned(out, ToolErrorMsg(cop[c]))]
  /\ cpc' = [cpc EXCEPT ![c] = "done"]
  /\ UNCHANGED <<cop, cthreshold, ctoken>>

ConcReturn(c) ==
  /\ cpc[c] = "done"
  /\ cpc' = [cpc EXCEPT ![c] = "idle"]
  /\ cop' = [cop EXCEPT ![c] = ""]
  /\ cthreshold' = [cthreshold EXCEPT ![c] = DefaultThreshold]
  /\ ctoken' = [ctoken EXCEPT ![c] = ""]
  /\ creply' = [creply EXCEPT ![c] = NoReply]
  /\ craised' = [craised EXCEPT ![c] = ""]
  /\ cresult' = [cresult EXCEPT ![c] = NoResult]

ConcNext ==
  \/ \E c \in Callers : ConcCall(c) /\ UNCHANGED <<reqVars, simVars, taskVars, serverVars>>
  \/ \E c \in Callers : ConcConvertToken(c) /\ UNCHANGED <<reqVars, simVars, taskVars, serverVars>>
  \/ \E c \in Callers : ConcFetch(c) /\ UNCHANGED <<reqVars, simVars, taskVars, serverVars>>
  \/ \E c \in Callers : ConcReturn(c) /\ UNCHANGED <<reqVars, simVars, taskVars, serverVars>>

SpecConc == Init /\ [][ConcNext]_vars

(***************************************************************************)
(* SpecTasks: create_task, get_tasks, update_task, complete_task and       *)
(* delete_task (src/tools/tasks_tools.py), one call at a time, with the    *)
(* requests the tools send to the backend.  A tool runs up to its          *)
(* `await client.request(...)`, where the request is out and the tool      *)
(* waits; the reply is handled in the next step.                           *)
(***************************************************************************)
valid_statuses == {"todo", "in_progress", "done"}

\* status not in valid_statuses
InvalidStatus(status) == status \notin valid_statuses

\* if status:
StatusTruthy(status) == status \notin {"", "<None>"}

InvalidStatusMsg == "Invalid status. Must be one of: todo, in_progress, done"

\* The status arguments callers pass; update_task and get_tasks default to None.
CreateStatuses == valid_statuses \cup {"", "archived", "DONE"}

UpdateStatuses == CreateStatuses \cup {"<None>"}

GetStatuses == {"<None>", "", "todo", "bogus"}

\* task_data of create_task.
task_data(args) ==
  [title |-> args.title, description |-> args.description, status |-> args.status]

\* update_data of update_task: a key for every argument that is not None.
update_data(args) ==
  [title |-> IF args.title # "<None>" THEN args.title ELSE "<absent>",
   description |-> IF args.description # "<None>" THEN args.description ELSE "<absent>",
   status |-> IF args.status # "<None>" THEN args.status ELSE "<absent>"]

\* update_data of complete_task.
complete_data == [NoTaskData EXCEPT !.status = "done"]

\* params of get_tasks: skip and limit, and status when it is truthy.
params_status(status) == IF StatusTruthy(status) THEN status ELSE "<absent>"

\* A request as client.request gets it.  json: whether a body is sent (data is not
\* None); params: whether query parameters are sent, status_param among them.
TaskRequest(method, tok, json, data, params, status_param) ==
  [method |-> method, token |-> tok, json |-> json, data |-> data,
   params |-> params, status_param |-> status_param]

\* What the backend answers to a request of the task tools.
TaskReplies(tok) ==
  FailReplies
  \cup {ErrorDetailReply(st, d) : st \in {400, 404, 500}, d \in {"", "Rate limit"}}
  \cup {Reply("ok", 307, FALSE, NoBody)}
  \cup (IF tok = "jwt"
        THEN {Reply("ok", st, TRUE, Body("dict", Data("absent", 0, <<>>))) : st \in {200, 201}}
        ELSE {})

\* make_authenticated_request up to `await client.request(...)`: the request is out.
SendTaskRequest(request) == tsent' = Append(tsent, request)

\* The message of the error result of each tool's except clause.
TaskErrorMsg(name) ==
  CASE name = "create_task" -> "Failed to create task"
    [] name = "get_tasks" -> "Failed to retrieve tasks"
    [] name = "update_task" -> "Failed to update task"
    [] name = "complete_task" -> "Failed to complete task"
    [] OTHER -> "Failed to delete task"

\* What a tool returns once make_authenticated_request has returned or raised;
\* delete_task returns its own message whatever the body is.
TaskResult(name, ret) ==
  IF ret.exc # "" THEN ErrorResult(TaskErrorMsg(name))
  ELSE IF name = "delete_task" THEN [kind |-> "message", message |-> "deleted successfully"]
  ELSE [kind |-> "response", body |-> ret.value]

CallCreateTask ==
  /\ tpc = "idle"
  /\ tname' = "create_task"
  /\ \E status \in CreateStatuses, description \in {"", "d"}, user_id \in UserIds :
       /\ targs' = [title |-> "t", description |-> description, status |-> status,
                    user_id |-> user_id]
       /\ IF InvalidStatus(status)
          THEN tresult' = ErrorResult(InvalidStatusMsg) /\ tpc' = "done"
          ELSE tresult' = tresult /\ tpc' = "token"
  /\ UNCHANGED <<ttoken, tsent, treply, tfetch>>

\* token = await convert_user_id_to_token(user_id), then the POST is sent; when
\* the conversion raises, the except clause returns the error and nothing is sent.
CreateTaskConvertToken ==
  /\ tpc = "token"
  /\ tname = "create_task"
  /\ \E login \in Logins, encoding \in StdoutEncodings :
       LET conv == convert_user_id_to_token(targs.user_id, login, encoding)
       IN IF conv.exc # ""
          THEN /\ tresult' = ErrorResult(TaskErrorMsg(tname))
               /\ tpc' = "done"
               /\ UNCHANGED <<ttoken, tsent>>
          ELSE /\ ttoken' = conv.token
               /\ SendTaskRequest(TaskRequest("POST", conv.token, TRUE, task_data(targs),
                                              FALSE, "<absent>"))
               /\ tresult' = tresult
               /\ tpc' = "request"
  /\ UNCHANGED <<tname, targs, treply, tfetch>>

\* get_tasks sends user_id as the token and does not validate status.
CallGetTasks ==
  /\ tpc = "idle"
  /\ tname' = "get_tasks"
  /\ \E status \in GetStatuses, user_id \in UserIds :
       /\ targs' = [NoTaskArgs EXCEPT !.status = status, !.user_id = user_id]
       /\ ttoken' = user_id
       /\ SendTaskRequest(TaskRequest("GET", user_id, FALSE, NoTaskData, TRUE,
                                      params_status(status)))
  /\ tpc' = "request"
  /\ UNCHANGED <<treply, tfetch, tresult>>

\* update_task sends user_id as the token, without convert_user_id_to_token.
CallUpdateTask ==
  /\ tpc = "idle"
  /\ tname' = "update_task"
  /\ \E status \in UpdateStatuses, title \in {"<None>", "t"},
        description \in {"<None>", "d"}, user_id \in UserIds :
       LET args == [title |-> title, description |-> description, status |-> status,
                    user_id |-> user_id]
       IN /\ targs' = args
          /\ IF StatusTruthy(status) /\ InvalidStatus(status)
             THEN /\ tresult' = ErrorResult(InvalidStatusMsg)
                  /\ tpc' = "done"
                  /\ UNCHANGED <<ttoken, tsent>>
             ELSE /\ tresult' = tresult
                  /\ tpc' = "request"
                  /\ ttoken' = user_id
                  /\ SendTaskRequest(TaskRequest("PUT", user_id, TRUE, update_data(args),
                                                 FALSE, "<absent>"))
  /\ UNCHANGED <<treply, tfetch>>

CallCompleteTask ==
  /\ tpc = "idle"
  /\ tname' = "complete_task"
  /\ \E user_id \in UserIds :
       /\ targs' = [NoTaskArgs EXCEPT !.user_id = user_id]
       /\ ttoken' = user_id
       /\ SendTaskRequest(TaskRequest("PUT", user_id, TRUE, complete_data, FALSE, "<absent>"))
  /\ tpc' = "request"
  /\ UNCHANGED <<treply, tfetch, tresult>>

CallDeleteTask ==
  /\ tpc = "idle"
  /\ tname' = "delete_task"
  /\ \E user_id \in UserIds :
       /\ targs' = [NoTaskArgs EXCEPT !.user_id = user_id]
       /\ ttoken' = user_id
       /\ SendTaskRequest(TaskRequest("DELETE", user_id, FALSE, NoTaskData, FALSE, "<absent>"))
  /\ tpc' = "request"
  /\ UNCHANGED <<treply, tfetch, tresult>>

\* The backend answers, or the connection fails: make_authenticated_request
\* returns or raises, and the tool returns.
TaskReply ==
  /\ tpc = "request"
  /\ \E reply \in TaskReplies(ttoken) :
       LET ret == make_authenticated_request(reply)
       IN /\ treply' = reply
          /\ tfetch' = ret
          /\ tresult' = TaskResult(tname, ret)
  /\ tpc' = "done"
  /\ UNCHANGED <<tname, targs, ttoken, tsent>>

TaskReturn ==
  /\ tpc = "done"
  /\ tpc' = "idle"
  /\ tname' = ""
  /\ targs' = NoTaskArgs
  /\ ttoken' = ""
  /\ tsent' = <<>>
  /\ treply' = NoReply
  /\ tfetch' = NoFetch
  /\ tresult' = NoResult

TaskNext ==
  \/ (CallCreateTask /\ UNCHANGED <<reqVars, simVars, concVars, serverVars>>)
  \/ (CreateTaskConvertToken /\ UNCHANGED <<reqVars, simVars, concVars, serverVars>>)
  \/ (CallGetTasks /\ UNCHANGED <<reqVars, simVars, concVars, serverVars>>)
  \/ (CallUpdateTask /\ UNCHANGED <<reqVars, simVars, concVars, serverVars>>)
  \/ (CallCompleteTask /\ UNCHANGED <<reqVars, simVars, concVars, serverVars>>)
  \/ (CallDeleteTask /\ UNCHANGED <<reqVars, simVars, concVars, serverVars>>)
  \/ (TaskReply /\ UNCHANGED <<reqVars, simVars, concVars, serverVars>>)
  \/ (TaskReturn /\ UNCHANGED <<reqVars, simVars, concVars, serverVars>>)

SpecTasks == Init /\ [][TaskNext]_vars

(***************************************************************************)
(* SpecServer: the loading of src/server.py, statement by statement: the   *)
(* routes of the backend app are filtered, the modules under tools,        *)
(* prompts and resources are imported, the server object mcp is created    *)
(* and the module's own tool and resource are registered on it.            *)
(***************************************************************************)
blocked_prefixes ==
  {<<"/", "s", "y", "s", "t", "e", "m">>,
   <<"/", "s", "e", "r", "v", "i", "c", "e">>,
   <<"/", "m", "c", "p", "_", "d", "e", "n", "y">>,
   <<"/", "l", "o", "g", "i", "n">>,
   <<"/", "a", "u", "t", "h">>,
   <<"/", "u", "s", "e", "r", "s">>,
   <<"/", "u", "s", "e", "r">>,
   <<"/", "p", "a", "s", "s", "w", "o", "r", "d", "-", "r", "e", "c", "o", "v", "e", "r", "y">>,
   <<"/", "r", "e", "s", "e", "t", "-", "p", "a", "s", "s", "w", "o", "r", "d">>,
   <<"/", "d", "e", "b", "u", "g">>,
   <<"/", "a", "d", "m", "i", "n">>,
   <<"/", "m", "e", "s", "s", "a", "g", "i", "n", "g">>,
   <<"/", "m", "e", "t", "r", "i", "c", "s">>,
   <<"/", "p", "r", "i", "v", "a", "t", "e">>}

blocked_patterns ==
  {<<"s", "i", "g", "n", "u", "p">>,
   <<"p", "a", "s", "s", "w", "o", "r", "d">>,
   <<"t", "o", "k", "e", "n">>,
   <<"a", "d", "m", "i", "n">>,
   <<"d", "e", "b", "u", "g">>,
   <<"s", "u", "p", "e", "r", "u", "s", "e", "r">>,
   <<"d", "e", "l", "e", "t", "e">>,
   <<"r", "e", "s", "e", "t">>,
   <<"r", "e", "c", "o", "v", "e", "r", "y">>}

BlockedMethods == {"DELETE", "PUT", "PATCH"}

\* s.startswith(p)
StartsWith(s, p) == Len(p) <= Len(s) /\ SubSeq(s, 1, Len(p)) = p

\* p in s
Contains(s, p) == \E i \in 0..(Len(s) - Len(p)) : SubSeq(s, i + 1, i + Len(p)) = p

\* The three tests of the loop over fastapi_app.router.routes.
RouteBlocked(route) ==
  LET route_path == Lower(route.path)
  IN \/ \E prefix \in blocked_prefixes : StartsWith(route_path, prefix)
     \/ \E pattern \in blocked_patterns : Contains(route_path, pattern)
     \/ route.has_methods /\ route.methods \cap BlockedMethods # {}

routes_to_keep(routes) == SelectSeq(routes, LAMBDA route : ~RouteBlocked(route))

\* A route: its path, whether it has a methods attribute (a mount or a websocket
\* route has none), and its methods.
Route(path, has_methods, methods) ==
  [path |-> path, has_methods |-> has_methods, methods |-> methods]

BackendRoutes ==
  {Route(<<"/", "a", "p", "i", "/", "n", "o", "t", "e", "s">>, TRUE, {"GET"}),
   Route(<<"/", "a", "p", "i", "/", "n", "o", "t", "e", "s">>, TRUE, {"GET", "POST"}),
   Route(<<"/", "a", "p", "i", "/", "t", "a", "s", "k", "s">>, TRUE, {"PUT"}),
   Route(<<"/", "a", "p", "i", "/", "n", "o", "t", "e", "s">>, TRUE, {"GET", "DELETE"}),
   Route(<<"/", "a", "p", "i", "/", "t", "a", "s", "k", "s">>, TRUE, {"PATCH"}),
   Route(<<"/", "l", "o", "g", "i", "n">>, TRUE, {"POST"}),
   Route(<<"/", "A", "d", "m", "i", "n">>, TRUE, {"GET"}),
   Route(<<"/", "u", "s", "e", "r", "-", "g", "u", "i", "d", "e">>, TRUE, {"GET"}),
   Route(<<"/", "a", "p", "i", "/", "p", "A", "s", "s", "w", "o", "r", "d">>, TRUE, {"POST"}),
   Route(<<"/", "a", "p", "i", "/", "t", "o", "k", "e", "n">>, TRUE, {"POST"}),
   Route(<<"/", "w", "s">>, FALSE, {}),
   Route(<<"/", "a", "p", "i", "/", "u", "s", "e", "r", "s">>, TRUE, {"GET"})}

RouteLists == SeqUpTo(BackendRoutes, MaxRoutes)

\* The modules import_all_modules_recursively finds, and the function each defines.
RegisterFunctions ==
  {"register_ai_tools", "register_categories_tools", "register_notes_tools",
   "register_productivity_tools", "register_tasks_tools", "register_notes_prompts",
   "register_notes_resources"}

\* The register functions of the modules whose import succeeds: all, all but one, none.
ImportOutcomes ==
  {RegisterFunctions, RegisterFunctions \ {"register_productivity_tools"}, {}}

\* try: app_module = importlib.import_module("app.main") ... except: fastapi_app = None
BlockRoutes ==
  /\ spc = "start"
  /\ \/ \E routes \in RouteLists :
          /\ app_routes' = routes
          /\ fastapi_app' = "app"
          /\ router_routes' = routes_to_keep(routes)
          /\ reported_blocked' = Len(router_routes') - Len(routes_to_keep(routes))
     \/ /\ fastapi_app' = "None"
        /\ UNCHANGED <<app_routes, router_routes, reported_blocked>>
  /\ spc' = "blocked"
  /\ UNCHANGED <<defined, mcp>>

\* The three calls of import_all_modules_recursively: importing a module defines its
\* register function and calls nothing.
ImportModules ==
  /\ spc = "blocked"
  /\ \E imported \in ImportOutcomes : defined' = imported
  /\ spc' = "imported"
  /\ UNCHANGED <<app_routes, fastapi_app, router_routes, reported_blocked, mcp>>

Standalone == [kind |-> "standalone", tools |-> {}, resources |-> {}, routes |-> <<>>]

\* mcp = FastMCP.from_fastapi(fastapi_app, ...), or FastMCP(...) when there is no
\* app or the integration raises.
CreateMcp ==
  /\ spc = "imported"
  /\ \/ /\ fastapi_app = "app"
        /\ mcp' = [kind |-> "from_fastapi", tools |-> {}, resources |-> {},
                   routes |-> router_routes]
     \/ mcp' = Standalone
  /\ spc' = "created"
  /\ UNCHANGED <<app_routes, fastapi_app, router_routes, reported_blocked, defined>>

\* @mcp.tool() def add and @mcp.resource("config://app-version") def get_app_version
RegisterOwn ==
  /\ spc = "created"
  /\ mcp' = [mcp EXCEPT !.tools = @ \cup {"add"},
                        !.resources = @ \cup {"config://app-version"}]
  /\ spc' = "loaded"
  /\ UNCHANGED <<app_routes, fastapi_app, router_routes, reported_blocked, defined>>

\* if __name__ == "__main__": mcp.run(...)
RunServer ==
  /\ spc = "loaded"
  /\ spc' = "running"
  /\ UNCHANGED <<app_routes, fastapi_app, router_routes, reported_blocked, defined, mcp>>

ServerNext ==
  \/ (BlockRoutes /\ UNCHANGED <<reqVars, simVars, concVars, taskVars>>)
  \/ (ImportModules /\ UNCHANGED <<reqVars, simVars, concVars, taskVars>>)
  \/ (CreateMcp /\ UNCHANGED <<reqVars, simVars, concVars, taskVars>>)
  \/ (RegisterOwn /\ UNCHANGED <<reqVars, simVars, concVars, taskVars>>)
  \/ (RunServer /\ UNCHANGED <<reqVars, simVars, concVars, taskVars>>)

SpecServer == Init /\ [][ServerNext]_vars

(***************************************************************************)
(* What the claims speak of.                                               *)
(***************************************************************************)
AnalyticsOps ==
  {"get_productivity_dashboard", "find_duplicate_notes", "get_overdue_tasks_report",
   "get_content_insights"}

Finished(name) == pc = "done" /\ op = name

\* The fetch succeeded: make_authenticated_request returned a body.
FetchOk(reply) == make_authenticated_request(reply).exc = ""

FetchFailed(reply) == reply.net # "none" /\ make_authenticated_request(reply).exc # ""

\* The fetch returned {data: [...]}; Fetched is that list.
FetchedList(reply) ==
  FetchOk(reply) /\ reply.body.top = "dict" /\ reply.body.data.t = "list"

Fetched(reply) == reply.body.data.items

AllDicts(recs) == \A i \in 1..Len(recs) : recs[i].isdict

\* The sum of the counts of a histogram.
RECURSIVE HistTotal(_)
HistTotal(hist) ==
  IF DOMAIN hist = {} THEN 0
  ELSE LET k == CHOOSE x \in DOMAIN hist : TRUE
       IN hist[k] + HistTotal([x \in (DOMAIN hist) \ {k} |-> hist[x]])

\* A dashboard call that got past its token check with a window of at least a day.
DashboardDone ==
  /\ Finished("get_productivity_dashboard")
  /\ ~TokenFalsy(token)
  /\ days_back >= 1

(***************************************************************************)
(* C1.  Each of the four analytics entry points ends by returning exactly  *)
(* one result, whatever the token, the backend's reply and the records     *)
(* are: no exception leaves the entry point, nothing is returned before    *)
(* the handler is done, and whenever an exception reached the handler's    *)
(* outer try the result returned is an error result.                       *)
(***************************************************************************)
C1_EntryPointsAlwaysReturn ==
  /\ ~escaped
  /\ pc # "done" => result = NoResult
  /\ (pc = "done" /\ op \in AnalyticsOps) =>
       /\ result.kind # "none"
       /\ raised # "" => result.kind = "error"

(***************************************************************************)
(* C2.  get_productivity_dashboard, with a valid token and two successful  *)
(* fetches, returns a dashboard (not an error result) holding every        *)
(* documented key; with empty lists its counts are 0 and its histograms    *)
(* are empty mappings.                                                     *)
(***************************************************************************)
C2_DashboardHasEveryKey ==
  (DashboardDone /\ FetchOk(notesReply) /\ FetchOk(tasksReply)) =>
     /\ result.kind = "dashboard"
     /\ result.days_analyzed = days_back
     /\ (notes = <<>> /\ DashboardList(make_authenticated_request(tasksReply)) = <<>>) =>
          /\ result.total_notes = 0 /\ result.total_tasks = 0
          /\ result.recent_notes = 0 /\ result.recent_tasks = 0
          /\ result.total_completed = 0 /\ result.recent_completed = 0
          /\ DOMAIN result.status_distribution = {}
          /\ DOMAIN result.note_categories = {}
          /\ DOMAIN result.task_categories = {}
          /\ DOMAIN result.daily_activity = {}

(***************************************************************************)
(* C3.  In get_productivity_dashboard, when exactly one of the two fetches *)
(* fails, the result is still a dashboard: the failed side counts 0 and    *)
(* the other side's total is the number of records fetched.                *)
(***************************************************************************)
C3_OneFetchFailsStillDashboard ==
  /\ (DashboardDone /\ FetchFailed(notesReply) /\ FetchedList(tasksReply)
        /\ AllDicts(Fetched(tasksReply))) =>
       /\ result.kind = "dashboard"
       /\ result.total_notes = 0 /\ result.recent_notes = 0
       /\ result.total_tasks = Len(Fetched(tasksReply))
  /\ (DashboardDone /\ FetchFailed(tasksReply) /\ FetchedList(notesReply)
        /\ AllDicts(Fetched(notesReply))) =>
       /\ result.kind = "dashboard"
       /\ result.total_tasks = 0 /\ result.recent_tasks = 0
       /\ result.total_notes = Len(Fetched(notesReply))

(***************************************************************************)
(* C4.  In get_productivity_dashboard a record with a parseable created_at *)
(* is counted in recent_notes / recent_tasks if and only if                *)
(* now - days_back days <= created_at <= now.                              *)
(***************************************************************************)
Parseable(rec) == StampTruthy(rec.created_at) /\ ParseStamp(rec.created_at).exc = ""

InClaimedWindow(rec, d) ==
  /\ Parseable(rec)
  /\ NowTick - d * TicksPerDay <= rec.created_at.t
  /\ rec.created_at.t <= NowTick

\* The count lies between the parseable records inside the window and the records
\* that are not parseable records outside it.
WindowCountOk(count, recs, d) ==
  /\ count >= CountIf(recs, LAMBDA r : InClaimedWindow(r, d))
  /\ count <= CountIf(recs, LAMBDA r : ~Parseable(r) \/ InClaimedWindow(r, d))

C4_WindowInclusion ==
  (DashboardDone /\ FetchedList(notesReply) /\ FetchedList(tasksReply)
     /\ AllDicts(Fetched(notesReply)) /\ AllDicts(Fetched(tasksReply))) =>
     /\ result.kind = "dashboard"
     /\ WindowCountOk(result.recent_notes, Fetched(notesReply), days_back)
     /\ WindowCountOk(result.recent_tasks, Fetched(tasksReply), days_back)

(***************************************************************************)
(* C5.  get_productivity_dashboard never divides by zero for a completion  *)
(* percentage: with an empty task list the dashboard has                   *)
(* overall_completion_rate = 0 and an empty status_distribution, and with  *)
(* no task in the window recent_completion_rate = 0.                       *)
(***************************************************************************)
C5_NoDivisionByZero ==
  (DashboardDone /\ FetchOk(notesReply) /\ AllDicts(notes)
     /\ FetchedList(tasksReply) /\ AllDicts(Fetched(tasksReply))) =>
     /\ result.kind = "dashboard"
     /\ Fetched(tasksReply) = <<>> =>
          /\ RatEq(result.overall_completion_rate, Zero)
          /\ DOMAIN result.status_distribution = {}
     /\ result.recent_tasks = 0 => RatEq(result.recent_completion_rate, Zero)

(***************************************************************************)
(* C6.  get_task_statistics gives completion_percentage = 0 for an empty   *)
(* task list (no division error), otherwise the percentage of done tasks   *)
(* out of the total (to one decimal); total is the number of fetched       *)
(* tasks.                                                                  *)
(***************************************************************************)
\* pct is the multiple of 1/10 nearest to 100 * done / total.
NearestTenth(pct, done, total) ==
  LET diff == pct.num * total - 1000 * done
  IN pct.den = 10 /\ 2 * diff <= total /\ 0 - 2 * diff <= total

C6_CompletionPercentage ==
  (Finished("get_task_statistics") /\ FetchedList(tasksReply)
     /\ AllDicts(Fetched(tasksReply))) =>
     LET tasks == Fetched(tasksReply)
         done == CountIf(tasks, IsDone)
     IN /\ result.kind = "stats"
        /\ result.total = Len(tasks)
        /\ result.done = done
        /\ tasks = <<>> => RatEq(result.completion_percentage, Zero)
        /\ tasks # <<>> => NearestTenth(result.completion_percentage, done, Len(tasks))

\* The empty task list gave statistics with a percentage of 0.
C6_Witness ==
  /\ Finished("get_task_statistics")
  /\ FetchedList(tasksReply)
  /\ Fetched(tasksReply) = <<>>
  /\ result.kind = "stats"
  /\ result.total = 0
  /\ RatEq(result.completion_percentage, Zero)

(***************************************************************************)
(* C7.  In get_productivity_dashboard a record whose created_at is missing *)
(* or unparseable is never counted in recent_notes / recent_tasks or in    *)
(* daily_activity, but is counted in total_notes / total_tasks, in the     *)
(* category histograms, in status_distribution and in total_completed; it  *)
(* never makes the dashboard an error result.                              *)
(***************************************************************************)
C7_UnparseableRetainedInTotals ==
  (DashboardDone /\ FetchedList(notesReply) /\ FetchedList(tasksReply)
     /\ AllDicts(Fetched(notesReply)) /\ AllDicts(Fetched(tasksReply))
     /\ \/ \E i \in 1..Len(Fetched(notesReply)) : ~Parseable(Fetched(notesReply)[i])
        \/ \E i \in 1..Len(Fetched(tasksReply)) : ~Parseable(Fetched(tasksReply)[i])) =>
     /\ result.kind = "dashboard"
     /\ result.total_notes = Len(Fetched(notesReply))
     /\ result.total_tasks = Len(Fetched(tasksReply))
     /\ result.recent_notes <= CountIf(Fetched(notesReply), Parseable)
     /\ result.recent_tasks <= CountIf(Fetched(tasksReply), Parseable)
     /\ HistTotal(result.note_categories) = Len(Fetched(notesReply))
     /\ HistTotal(result.task_categories) = Len(Fetched(tasksReply))
     /\ HistTotal(result.status_distribution) = Len(Fetched(tasksReply))
     /\ result.total_completed = CountIf(Fetched(tasksReply), IsDone)
     /\ HistTotal([d \in DOMAIN result.daily_activity |->
                     result.daily_activity[d].notes + result.daily_activity[d].tasks])
          <= CountIf(Fetched(notesReply), Parseable) + CountIf(Fetched(tasksReply), Parseable)

(***************************************************************************)
(* C8.  The similarity score is symmetric: calculate_similarity(A, B) and  *)
(* calculate_similarity(B, A) give the same score (and raise alike).       *)
(***************************************************************************)
C8_SimilaritySymmetric ==
  simPc = "scored" =>
    LET swapped == calculate_similarity(simB, simA)
    IN /\ simOut.exc = swapped.exc
       /\ RatEq(simOut.value, swapped.value)

\* Two notes with different token sets of different sizes were scored 1/2.
C8_Witness ==
  /\ simPc = "scored"
  /\ simOut.exc = ""
  /\ simA # simB
  /\ RatEq(simOut.value, Rat(1, 2))
  /\ Len(DictGet(simA.title, <<>>)) # Len(DictGet(simB.title, <<>>))

(***************************************************************************)
(* C9.  calculate_similarity returns |intersection| / |union| of the two   *)
(* sets of lowercase whitespace-separated tokens of title + " " + content; *)
(* the score lies in [0, 1], is 0 whenever either text has no token, and   *)
(* is 1 exactly when the two token sets are equal and non-empty.           *)
(***************************************************************************)
\* The text of a note whose fields are strings or missing.
ClaimText(note) == Lower(DictGet(note.title, <<>>) \o <<" ">> \o DictGet(note.content, <<>>))

\* Its tokens: the maximal runs of non-space characters.
ClaimTokens(note) ==
  LET text == ClaimText(note)
  IN {SubSeq(text, i, j) : <<i, j>> \in
        {p \in (1..Len(text)) \X (1..Len(text)) :
           /\ p[1] <= p[2]
           /\ \A k \in p[1]..p[2] : text[k] # " "
           /\ (p[1] = 1 \/ text[p[1] - 1] = " ")
           /\ (p[2] = Len(text) \/ text[p[2] + 1] = " ")}}

C9_SimilarityIsJaccard ==
  (simPc = "scored" /\ simOut.exc = "") =>
    LET ta == ClaimTokens(simA)
        tb == ClaimTokens(simB)
        score == simOut.value
    IN /\ score.den > 0
       /\ RatLe(Zero, score) /\ RatLe(score, Rat(1, 1))
       /\ (ta = {} \/ tb = {}) => RatEq(score, Zero)
       /\ (ta # {} /\ tb # {}) =>
            RatEq(score, Rat(Cardinality(ta \cap tb), Cardinality(ta \cup tb)))
       /\ RatEq(score, Rat(1, 1)) <=> (ta = tb /\ ta # {})

\* Two notes that differ as records (in case, in where the words sit) have the
\* same two tokens and were scored 1.
C9_Witness ==
  /\ simPc = "scored"
  /\ simOut.exc = ""
  /\ simA # simB
  /\ RatEq(simOut.value, Rat(1, 1))
  /\ Cardinality(ClaimTokens(simA)) = 2

(***************************************************************************)
(* C10.  For any fetched note list, also one in which two records carry    *)
(* the same id, no entry of duplicates pairs a note with itself: the two   *)
(* notes of every entry have different ids.                                *)
(***************************************************************************)
C10_NoSelfPairing ==
  (Finished("find_duplicate_notes") /\ result.kind = "duplicates") =>
    \A k \in 1..Len(result.duplicates) :
      result.duplicates[k].notes[1].id # result.duplicates[k].notes[2].id

(***************************************************************************)
(* The pairs of a fetched note list, as the claims about the duplicate     *)
(* finder speak of them.                                                   *)
(***************************************************************************)
\* The unordered pairs of distinct notes: the pairs of positions i < j.
PositionPairs(n) == {p \in (1..n) \X (1..n) : p[1] < p[2]}

PairScore(recs, p) == calculate_similarity(recs[p[1]], recs[p[2]])

\* The pairs whose score is at least the threshold.
KeptPairs(recs, th) ==
  {p \in PositionPairs(Len(recs)) :
     PairScore(recs, p).exc = "" /\ RatLe(th, PairScore(recs, p).value)}

\* The entry a kept pair is reported as.
EntryOf(recs, p) ==
  [similarity_score |-> RoundTo(PairScore(recs, p).value, 1000),
   notes |-> <<NoteInfo(recs[p[1]]), NoteInfo(recs[p[2]])>>]

\* find_duplicate_notes returned a duplicates result for a fetched list.
DuplicatesDone ==
  /\ Finished("find_duplicate_notes")
  /\ result.kind = "duplicates"
  /\ FetchedList(notesReply)

(***************************************************************************)
(* C11.  find_duplicate_notes scores every pair of distinct fetched notes  *)
(* exactly once and keeps a pair if and only if its score is at least the  *)
(* threshold: the number of kept pairs it reports is the number of pairs   *)
(* of positions whose score reaches the threshold, and (below the cap) the *)
(* reported entries are exactly the entries of those pairs.                *)
(***************************************************************************)
C11_EveryPairScoredOnce ==
  DuplicatesDone =>
    LET recs == Fetched(notesReply)
        kept == KeptPairs(recs, threshold)
    IN /\ result.duplicate_groups_found = Cardinality(kept)
       /\ Cardinality(kept) <= TopDuplicates =>
            /\ \A q \in kept : \E k \in 1..Len(result.duplicates) :
                 result.duplicates[k] = EntryOf(recs, q)
            /\ \A k \in 1..Len(result.duplicates) : \E q \in kept :
                 result.duplicates[k] = EntryOf(recs, q)

\* The entries the scan kept, before they are sorted and cut.
KeptByScan(recs, th) ==
  ScanPairs(NoPairsYet, recs, PairsFrom(1, 2, Len(recs)), th).duplicates

CountIn(seq, e) == Cardinality({k \in 1..Len(seq) : seq[k] = e})

(***************************************************************************)
(* C12.  The duplicates list of find_duplicate_notes is ordered by         *)
(* non-increasing similarity_score, has at most 20 entries, all of them    *)
(* kept pairs, as many as there are kept pairs up to 20, and no kept pair  *)
(* that was left out has a score strictly greater than a listed one.       *)
(***************************************************************************)
C12_TopTwentyByScore ==
  DuplicatesDone =>
    LET list == result.duplicates
        kept == KeptByScan(Fetched(notesReply), threshold)
    IN /\ \A k \in 1..(Len(list) - 1) :
            RatLe(list[k + 1].similarity_score, list[k].similarity_score)
       /\ Len(list) <= TopDuplicates
       /\ Len(list) = IF Len(kept) < TopDuplicates THEN Len(kept) ELSE TopDuplicates
       /\ \A k \in 1..Len(list) : CountIn(list, list[k]) <= CountIn(kept, list[k])
       /\ \A i \in 1..Len(kept) :
            CountIn(list, kept[i]) < CountIn(kept, kept[i]) =>
              \A k \in 1..Len(list) :
                RatLe(kept[i].similarity_score, list[k].similarity_score)

\* Seven notes gave 21 kept pairs; 20 are listed, from score 1 down to score 1/2,
\* and the scan had kept a pair of score 1/2 before one of score 1.
C12_Witness ==
  /\ DuplicatesDone
  /\ result.duplicate_groups_found = TopDuplicates + 1
  /\ Len(result.duplicates) = TopDuplicates
  /\ RatEq(result.duplicates[1].similarity_score, Rat(1, 1))
  /\ RatEq(result.duplicates[TopDuplicates].similarity_score, Rat(1, 2))
  /\ LET kept == KeptByScan(Fetched(notesReply), threshold)
     IN \E i \in 1..(Len(kept) - 1) :
          ~RatLe(kept[i + 1].similarity_score, kept[i].similarity_score)

(***************************************************************************)
(* C13.  When the note fetch yields fewer than 2 notes (0 or 1),           *)
(* find_duplicate_notes returns a result with an empty duplicates list and *)
(* a message, and not an error result.                                     *)
(***************************************************************************)
C13_FewerThanTwoNotes ==
  (Finished("find_duplicate_notes") /\ FetchedList(notesReply)
     /\ Len(Fetched(notesReply)) < 2) =>
    /\ result.kind = "message"
    /\ result.duplicates = <<>>
    /\ result.message # ""
    /\ raised = ""

\* A single fetched note gave the message result.
C13_Witness ==
  /\ Finished("find_duplicate_notes")
  /\ FetchedList(notesReply)
  /\ Len(Fetched(notesReply)) = 1
  /\ result.kind = "message"
  /\ result.duplicates = <<>>

\* The preview the documentation gives a content: the content itself up to 100
\* characters, its first 100 characters and "..." beyond, "" when missing or null.
ClaimPreview(content) ==
  LET text == IF content = Absent \/ content = NoneVal THEN <<>> ELSE content
  IN IF Len(text) <= PreviewLimit THEN text
     ELSE SubSeq(text, 1, PreviewLimit) \o <<".", ".", ".">>

\* Every reported entry shows two fetched notes, each with the documented preview of
\* its own content, and no preview is null.
PreviewsAsDocumented(recs) ==
  \A k \in 1..Len(result.duplicates) :
    /\ \E q \in PositionPairs(Len(recs)) :
         \A side \in 1..2 :
           /\ result.duplicates[k].notes[side].id = recs[q[side]].id
           /\ result.duplicates[k].notes[side].content_preview =
                ClaimPreview(recs[q[side]].content)
    /\ \A side \in 1..2 :
         /\ result.duplicates[k].notes[side].content_preview # NoneVal
         /\ result.duplicates[k].notes[side].content_preview # Absent

(***************************************************************************)
(* C14.  In every entry find_duplicate_notes reports, content_preview is   *)
(* the note's content when it has at most 100 characters and its first 100 *)
(* characters followed by "..." when it has more; it is never null: a note *)
(* with a missing content is reported with the empty string, and a note    *)
(* with a null content is in no reported entry.                            *)
(***************************************************************************)
C14_ContentPreview ==
  (Finished("find_duplicate_notes") /\ result.kind = "duplicates") =>
    /\ FetchedList(notesReply)
    /\ PreviewsAsDocumented(Fetched(notesReply))

\* One reported entry holds a content of 101 characters cut to 100 and "...", and a
\* content without its field shown as the empty string.
C14_Witness ==
  /\ Finished("find_duplicate_notes")
  /\ result.kind = "duplicates"
  /\ FetchedList(notesReply)
  /\ \E k \in 1..Len(result.duplicates) :
       /\ Fetched(notesReply)[1].content = Absent
       /\ Len(Fetched(notesReply)[2].content) = PreviewLimit + 1
       /\ result.duplicates[k].notes[1].content_preview = <<>>
       /\ Len(result.duplicates[k].notes[2].content_preview) = PreviewLimit + 3

\* n >= 2 notes as the Note type has them (an object with an id, a category that
\* is missing, null or an object), with different ids, the same title and the same
\* content, both non-empty strings.
IdenticalNotes(recs) ==
  /\ Len(recs) >= 2
  /\ \A i \in 1..Len(recs) :
       /\ recs[i].isdict
       /\ recs[i].id # NoId
       /\ recs[i].category.t # "str"
       /\ IsStr(recs[i].title) /\ IsStr(recs[i].content)
       /\ recs[i].title = recs[1].title /\ recs[i].content = recs[1].content
       /\ recs[i].title # <<>> /\ recs[i].content # <<>>
  /\ \A i, j \in 1..Len(recs) : i # j => recs[i].id # recs[j].id

\* The title or the content holds a character that is not whitespace.
HasToken(rec) ==
  \E i \in 1..Len(rec.title \o rec.content) : ~IsSpace((rec.title \o rec.content)[i])

\* All n(n-1)/2 pairs are reported (up to the cap of 20), each with score 1.0.
AllPairsReported(recs) ==
  LET pairs == PositionPairs(Len(recs))
  IN /\ result.kind = "duplicates"
     /\ result.duplicate_groups_found = Cardinality(pairs)
     /\ 2 * Cardinality(pairs) = Len(recs) * (Len(recs) - 1)
     /\ Len(result.duplicates) =
          IF Cardinality(pairs) < TopDuplicates THEN Cardinality(pairs) ELSE TopDuplicates
     /\ \A k \in 1..Len(result.duplicates) :
          /\ RatEq(result.duplicates[k].similarity_score, Rat(1, 1))
          /\ \E q \in pairs :
               /\ result.duplicates[k].notes[1].id = recs[q[1]].id
               /\ result.duplicates[k].notes[2].id = recs[q[2]].id
     /\ \A k1, k2 \in 1..Len(result.duplicates) :
          k1 # k2 => result.duplicates[k1].notes # result.duplicates[k2].notes

(***************************************************************************)
(* C16 as stated.  For n >= 2 notes with distinct ids and identical        *)
(* non-empty title and content, and any threshold <= 1,                    *)
(* find_duplicate_notes reports all n(n-1)/2 pairs (up to the cap of 20),  *)
(* each with similarity_score 1.0.                                         *)
(***************************************************************************)
C16_IdenticalNotesAllPairs_AsStated ==
  (Finished("find_duplicate_notes") /\ FetchedList(notesReply)
     /\ IdenticalNotes(Fetched(notesReply)) /\ RatLe(threshold, Rat(1, 1))) =>
    AllPairsReported(Fetched(notesReply))

(***************************************************************************)
(* C16, amended.  For n >= 2 notes with distinct ids and identical title   *)
(* and content that hold at least one character that is not whitespace,    *)
(* and any threshold <= 1, find_duplicate_notes reports all n(n-1)/2 pairs *)
(* (up to the cap of 20), each with similarity_score 1.0.  Identical notes *)
(* whose title and content are whitespace only score 0.0 with each other:  *)
(* no pair of them is reported for a threshold above 0.                    *)
(***************************************************************************)
C16_IdenticalNotesAllPairs ==
  (Finished("find_duplicate_notes") /\ FetchedList(notesReply)
     /\ IdenticalNotes(Fetched(notesReply)) /\ RatLe(threshold, Rat(1, 1))) =>
    IF HasToken(Fetched(notesReply)[1])
    THEN AllPairsReported(Fetched(notesReply))
    ELSE /\ result.kind = "duplicates"
         /\ \A k \in 1..Len(result.duplicates) :
              RatEq(result.duplicates[k].similarity_score, Zero)
         /\ ~RatLe(threshold, Zero) =>
              result.duplicates = <<>> /\ result.duplicate_groups_found = 0

\* Three identical notes and the threshold 0.5 gave exactly 3 pairs of score 1.0.
C16_Witness ==
  /\ Finished("find_duplicate_notes")
  /\ FetchedList(notesReply)
  /\ IdenticalNotes(Fetched(notesReply))
  /\ Len(Fetched(notesReply)) = 3
  /\ threshold = Rat(5, 10)
  /\ result.kind = "duplicates"
  /\ Len(result.duplicates) = 3
  /\ \A k \in 1..3 : RatEq(result.duplicates[k].similarity_score, Rat(1, 1))

\* Notes that are objects with different ids and no category, whatever their title
\* and content are: strings, missing or null.
NotesOfAnyText(recs) ==
  /\ \A i \in 1..Len(recs) :
       recs[i].isdict /\ recs[i].id # NoId /\ ~CatTruthy(recs[i].category)
  /\ \A i, j \in 1..Len(recs) : i # j => recs[i].id # recs[j].id

FieldOrEmpty(v) == IF v = Absent \/ v = NoneVal THEN <<>> ELSE v

\* The tokens of a note whose missing or null fields count as the empty string.
TokensOrEmpty(rec) ==
  ToSet(Split(Lower(FieldOrEmpty(rec.title) \o <<" ">> \o FieldOrEmpty(rec.content))))

\* The pairs that reach the threshold when missing and null fields are empty strings.
KeptWithDefaults(recs, th) ==
  {q \in PositionPairs(Len(recs)) :
     LET t1 == TokensOrEmpty(recs[q[1]])
         t2 == TokensOrEmpty(recs[q[2]])
     IN RatLe(th, IF t1 = {} \/ t2 = {} THEN Zero
                  ELSE Rat(Cardinality(t1 \cap t2), Cardinality(t1 \cup t2)))}

(***************************************************************************)
(* C17.  find_duplicate_notes treats a missing or null title or content as *)
(* the empty string: a note with such a field is still scored, on the      *)
(* tokens of its other field, and the request returns a duplicates result  *)
(* and not an error result.                                                *)
(***************************************************************************)
C17_MissingOrNullTextIsEmpty ==
  (Finished("find_duplicate_notes") /\ FetchedList(notesReply)
     /\ Len(Fetched(notesReply)) >= 2 /\ NotesOfAnyText(Fetched(notesReply))
     /\ \E i \in 1..Len(Fetched(notesReply)) :
          ~IsStr(Fetched(notesReply)[i].title) \/ ~IsStr(Fetched(notesReply)[i].content)) =>
    /\ result.kind = "duplicates"
    /\ result.duplicate_groups_found =
         Cardinality(KeptWithDefaults(Fetched(notesReply), threshold))

\* The backend answered with an object whose data field is missing or is no list.
DataNotAList(reply) ==
  /\ FetchOk(reply)
  /\ reply.body.top \in {"dict", "emptydict"}
  /\ reply.body.data.t # "list"

(***************************************************************************)
(* C18.  In find_duplicate_notes, get_overdue_tasks_report and             *)
(* get_content_insights a reply whose data field is missing or is not a    *)
(* list (null, mapping, string, number) counts as an empty sequence: the   *)
(* operation returns its message result and not an error result.           *)
(***************************************************************************)
C18_NonListDataIsEmpty ==
  /\ (Finished("find_duplicate_notes") /\ DataNotAList(notesReply)) =>
       result.kind = "message" /\ result.duplicates = <<>>
  /\ (Finished("get_overdue_tasks_report") /\ DataNotAList(tasksReply)) =>
       result.kind = "message" /\ result.overdue_tasks = <<>> /\ result.upcoming_tasks = <<>>
  /\ (Finished("get_content_insights") /\ DataNotAList(notesReply)) =>
       result.kind = "message"

\* get_overdue_tasks_report returned a report for a fetched list of task objects.
ReportDone ==
  /\ Finished("get_overdue_tasks_report")
  /\ FetchedList(tasksReply)
  /\ AllDicts(Fetched(tasksReply))
  /\ result.kind = "report"

\* The task has a due date that parses as an ISO-8601 timestamp.
HasDueDate(task) == StampTruthy(task.due_date) /\ ParseStamp(task.due_date).exc = ""

ClaimedOverdue(task) ==
  task.status # "done" /\ HasDueDate(task) /\ task.due_date.t < NowTick

ClaimedUpcoming(task) ==
  /\ task.status # "done" /\ HasDueDate(task)
  /\ NowTick <= task.due_date.t
  /\ task.due_date.t <= NowTick + UpcomingDays * TicksPerDay

\* The entries of a list are the tasks that satisfy P, one entry per task.
ListsExactly(list, tasks, P(_)) ==
  /\ Len(list) = CountIf(tasks, P)
  /\ \A k \in 1..Len(list) :
       \E i \in 1..Len(tasks) :
         /\ P(tasks[i])
         /\ list[k].due_date = tasks[i].due_date
         /\ list[k].status = tasks[i].status

(***************************************************************************)
(* C19.  In get_overdue_tasks_report a task is in overdue_tasks if and     *)
(* only if its status is not done, its due date parses and lies before     *)
(* now; it is in upcoming_tasks if and only if its status is not done, its *)
(* due date parses and lies between now and now + 7 days, both included;   *)
(* no task is in both lists.                                               *)
(***************************************************************************)
C19_OverdueAndUpcoming ==
  ReportDone =>
    /\ ListsExactly(result.overdue_tasks, Fetched(tasksReply), ClaimedOverdue)
    /\ ListsExactly(result.upcoming_tasks, Fetched(tasksReply), ClaimedUpcoming)
    /\ \A k \in 1..Len(result.overdue_tasks), m \in 1..Len(result.upcoming_tasks) :
         result.overdue_tasks[k].due_date # result.upcoming_tasks[m].due_date

\* Two tasks of the reply are both overdue, the earlier one by fewer whole days.
OverdueOutOfOrder(tasks) ==
  \E i, j \in 1..Len(tasks) :
    /\ i < j
    /\ ClaimedOverdue(tasks[i]) /\ ParseStamp(tasks[i].due_date).aware
    /\ ClaimedOverdue(tasks[j]) /\ ParseStamp(tasks[j].due_date).aware
    /\ DaysOf(NowTick - tasks[i].due_date.t) < DaysOf(NowTick - tasks[j].due_date.t)

(***************************************************************************)
(* C20.  In the report of get_overdue_tasks_report, overdue_tasks is       *)
(* ordered by non-increasing days_overdue and upcoming_tasks by            *)
(* non-decreasing days_difference.                                         *)
(***************************************************************************)
C20_ReportListsOrdered ==
  (Finished("get_overdue_tasks_report") /\ result.kind = "report") =>
    /\ \A k, m \in 1..Len(result.overdue_tasks) :
         k < m => result.overdue_tasks[k].days_overdue >= result.overdue_tasks[m].days_overdue
    /\ \A k, m \in 1..Len(result.upcoming_tasks) :
         k < m => result.upcoming_tasks[k].days_difference
                    <= result.upcoming_tasks[m].days_difference

\* A report for a reply that lists a less overdue task before a more overdue one.
C20_Witness ==
  /\ ReportDone
  /\ OverdueOutOfOrder(Fetched(tasksReply))
  /\ Len(result.overdue_tasks) > Len(result.upcoming_tasks)

\* Largest whole number of days before now that a task of the model is due.
MaxDaysOverdue == 1

\* The list has an entry for the task, with the field days_field equal to k.
ListedWithDays(list, task, days_field, k) ==
  \E e \in 1..Len(list) :
    /\ list[e].due_date = task.due_date
    /\ list[e].status = task.status
    /\ list[e][days_field] = k

NotListed(list, task) ==
  \A e \in 1..Len(list) : list[e].due_date # task.due_date

(***************************************************************************)
(* C21.  get_overdue_tasks_report counts whole days: a task that is not    *)
(* done and due exactly k days before now, k >= 1, is in overdue_tasks     *)
(* with days_overdue = k and not in upcoming_tasks; a task that is not     *)
(* done and due exactly k days after now, 0 <= k <= 7, is in               *)
(* upcoming_tasks with days_difference = k and not in overdue_tasks.       *)
(***************************************************************************)
C21_WholeDays ==
  ReportDone =>
    \A i \in 1..Len(Fetched(tasksReply)) :
      LET task == Fetched(tasksReply)[i]
      IN (task.status # "done" /\ HasDueDate(task)) =>
           /\ \A k \in 1..MaxDaysOverdue :
                task.due_date.t = NowTick - k * TicksPerDay =>
                  /\ ListedWithDays(result.overdue_tasks, task, "days_overdue", k)
                  /\ NotListed(result.upcoming_tasks, task)
           /\ \A k \in 0..UpcomingDays :
                task.due_date.t = NowTick + k * TicksPerDay =>
                  /\ ListedWithDays(result.upcoming_tasks, task, "days_difference", k)
                  /\ NotListed(result.overdue_tasks, task)

\* The recommendations the four rules give for the two lists of a report, a task
\* being due soon when its due date is at most UrgentDays days after now.
RuleMessages(overdue_tasks, upcoming_tasks) ==
  LET high == CountIf(overdue_tasks, LAMBDA t : t.priority = "high")
      soon == CountIf(upcoming_tasks,
                      LAMBDA t : t.due_date.t <= NowTick + UrgentDays * TicksPerDay)
  IN (IF Len(overdue_tasks) > ManyOverdue THEN <<Recommendation("many_overdue", 0)>> ELSE <<>>)
     \o (IF high > 0 THEN <<Recommendation("high_priority_overdue", high)>> ELSE <<>>)
     \o (IF soon > 0 THEN <<Recommendation("due_within_2_days", soon)>> ELSE <<>>)
     \o (IF overdue_tasks = <<>> /\ upcoming_tasks = <<>>
         THEN <<Recommendation("great_job", 0)>> ELSE <<>>)

(***************************************************************************)
(* C22.  The recommendations of get_overdue_tasks_report are exactly the   *)
(* messages of the rules that fire, in rule order: the triage message iff  *)
(* more than 5 tasks are overdue, the high-priority message with its count *)
(* iff an overdue task has priority high, the due-soon message with its    *)
(* count iff an upcoming task is due within 2 days of now, and the         *)
(* positive message, alone, iff both lists are empty.                      *)
(***************************************************************************)
C22_RecommendationRules ==
  ReportDone =>
    result.recommendations = RuleMessages(result.overdue_tasks, result.upcoming_tasks)

\* The due date is a value that is no timestamp: a text that does not parse, or a
\* number.
Malformed(task) == task.due_date.form \in {"garbage", "number"}

\* The report for the same reply without its tasks of malformed due date.
ReportWithoutMalformed ==
  OverdueReport(Body("dict", ListData(SelectSeq(Fetched(tasksReply),
                                                LAMBDA t : ~Malformed(t))))).result

\* get_overdue_tasks_report finished on a list of tasks, one of them not done and
\* with a malformed due date.
MalformedDueDateDone ==
  /\ Finished("get_overdue_tasks_report")
  /\ FetchedList(tasksReply)
  /\ AllDicts(Fetched(tasksReply))
  /\ \E i \in 1..Len(Fetched(tasksReply)) :
       Fetched(tasksReply)[i].status # "done" /\ Malformed(Fetched(tasksReply)[i])

(***************************************************************************)
(* C23.  In get_overdue_tasks_report a task that is not done and whose due *)
(* date is malformed is in neither overdue_tasks nor upcoming_tasks, does  *)
(* not turn the report into an error result, does not change how the      *)
(* other tasks are classified, and is counted in total_active_tasks.       *)
(***************************************************************************)
C23_MalformedDueDateSkipped ==
  MalformedDueDateDone =>
    /\ result.kind = "report"
    /\ \A i \in 1..Len(Fetched(tasksReply)) :
         Malformed(Fetched(tasksReply)[i]) =>
           /\ NotListed(result.overdue_tasks, Fetched(tasksReply)[i])
           /\ NotListed(result.upcoming_tasks, Fetched(tasksReply)[i])
    /\ result.overdue_tasks = ReportWithoutMalformed.overdue_tasks
    /\ result.upcoming_tasks = ReportWithoutMalformed.upcoming_tasks
    /\ result.total_active_tasks =
         CountIf(Fetched(tasksReply), LAMBDA t : t.status # "done")

\* A report for a malformed due date next to an overdue and an upcoming task.
C23_Witness ==
  /\ MalformedDueDateDone
  /\ result.kind = "report"
  /\ result.overdue_tasks # <<>>
  /\ result.upcoming_tasks # <<>>
  /\ result.total_active_tasks = Len(Fetched(tasksReply))

\* The notes fetch of get_content_insights succeeded with an empty note list: data
\* is [], or the body has no data key and the default [] is taken.
EmptyNoteList(reply) ==
  /\ FetchOk(reply)
  /\ reply.body.top \in {"dict", "emptydict"}
  /\ GetData(reply.body).data = ListData(<<>>)

(***************************************************************************)
(* C24.  When the notes fetch yields an empty note list,                   *)
(* get_content_insights returns a result with the message "No notes found  *)
(* to analyze" and without a content_statistics key; no statistics are     *)
(* computed.                                                               *)
(***************************************************************************)
C24_NoNotesToAnalyze ==
  (Finished("get_content_insights") /\ EmptyNoteList(notesReply)) =>
    /\ raised = ""
    /\ result.kind = "message"
    /\ result.message = "No notes found to analyze"
    /\ "content_statistics" \notin DOMAIN result

\* get_content_insights returned for a reply whose data is the empty list.
C24_Witness ==
  /\ Finished("get_content_insights")
  /\ EmptyNoteList(notesReply)
  /\ notesReply.body.data.t = "list"
  /\ result.kind = "message"

\* create_task or update_task was called with a status that is none of the three.
UnknownStatusCall ==
  /\ tname \in {"create_task", "update_task"}
  /\ targs.status # "<None>"
  /\ targs.status \notin {"todo", "in_progress", "done"}

(***************************************************************************)
(* C25.  For every call of create_task or update_task, a request with a    *)
(* status field is sent to the backend only if that status is todo,        *)
(* in_progress or done; a call with any other supplied status returns an   *)
(* error result at once and sends no request.                              *)
(***************************************************************************)
C25_StatusValidatedBeforeRequest ==
  /\ \A i \in 1..Len(tsent) :
       tsent[i].data.status # "<absent>" =>
         tsent[i].data.status \in {"todo", "in_progress", "done"}
  /\ UnknownStatusCall => (tsent = <<>> /\ tpc = "done" /\ tresult.kind = "error")

\* server.py has been loaded: its last statement before the main guard has run.
ServerLoaded == spc \in {"loaded", "running"}

\* Tools that register_productivity_tools and register_tasks_tools define.
RegisteredTools ==
  AnalyticsOps \cup {"create_task", "update_task"}

(***************************************************************************)
(* C26.  After server.py has finished loading, the notes, tasks,           *)
(* categories, AI and productivity tools (for example                      *)
(* get_productivity_dashboard and find_duplicate_notes) are registered on  *)
(* the shared server object mcp that is then run, and that object exists   *)
(* before anything is registered on it.                                    *)
(***************************************************************************)
C26_ToolsRegisteredAtLoad ==
  /\ (mcp.tools # {} \/ mcp.resources # {}) => mcp.kind # "None"
  /\ ServerLoaded => (mcp.kind # "None" /\ RegisteredTools \subseteq mcp.tools)

\* The path, lowercased, starts with a blocked prefix or contains a blocked keyword,
\* or the route allows DELETE, PUT or PATCH.
Sensitive(route) ==
  \/ \E prefix \in blocked_prefixes : StartsWith(Lower(route.path), prefix)
  \/ \E pattern \in blocked_patterns : Contains(Lower(route.path), pattern)
  \/ route.has_methods /\ route.methods \cap {"DELETE", "PUT", "PATCH"} # {}

\* The route-blocking step has run on the routes of the backend app.
RoutesBlocked == spc # "start" /\ fastapi_app = "app"

\* The routes kept are the routes of the app that are not sensitive, in their order.
KeptRoutesAreTheSafeOnes ==
  /\ \A i \in 1..Len(router_routes) : ~Sensitive(router_routes[i])
  /\ router_routes = SelectSeq(app_routes, LAMBDA route : ~Sensitive(route))

(***************************************************************************)
(* C27.  After the route-blocking step of server start-up, no route kept   *)
(* on the router has a lowercased path that starts with a blocked prefix   *)
(* or contains a blocked keyword, or allows DELETE, PUT or PATCH; every    *)
(* route with none of these is kept; and the number of routes reported as  *)
(* blocked is the number of routes removed.                                *)
(***************************************************************************)
C27_RouteBlocking ==
  RoutesBlocked =>
    /\ KeptRoutesAreTheSafeOnes
    /\ reported_blocked = Len(app_routes) - Len(router_routes)

\* A task tool has returned after the backend answered its request, or failed to.
RequestAnswered == tpc = "done" /\ treply.net # "none"

\* The reply is a failure: no answer arrived, or its status is 400 or more.
FailureReply(reply) == reply.net = "error" \/ reply.status >= 400

\* The statuses that are raised with a message of their own.
OwnMessage(status) ==
  CASE status = 401 -> "Authentication failed"
    [] status = 403 -> "Authorization failed"
    [] status = 429 -> "Rate limit exceeded"
    [] OTHER -> ""

(***************************************************************************)
(* C28.  make_authenticated_request returns the body of the response only  *)
(* when the status is below 400; for every status of 400 or more and for   *)
(* every network failure it raises: 401, 403 and 429 with their own        *)
(* messages (authentication failed, authorization failed, rate limit       *)
(* exceeded), every other failure as a request or network error.           *)
(***************************************************************************)
C28_RequestFailuresRaise ==
  RequestAnswered =>
    /\ tfetch.exc = "" =>
         /\ ~FailureReply(treply)
         /\ tfetch.value = treply.body
         /\ tresult.kind # "error"
    /\ FailureReply(treply) => (tfetch.exc = "Exception" /\ tresult.kind = "error")
    /\ (treply.net = "ok" /\ OwnMessage(treply.status) # "") =>
         tfetch.msg = OwnMessage(treply.status)
    /\ treply.net = "error" => tfetch.msg = "Network error"
    /\ (treply.net = "ok" /\ OwnMessage(treply.status) = "" /\ tfetch.exc # "") =>
         tfetch.msg \in {"Request error", "Request failed"}

\* A tool returned an error after the backend answered 404.
C28_Witness ==
  /\ RequestAnswered
  /\ treply.net = "ok"
  /\ treply.status > 403 /\ treply.status < 429
  /\ tfetch.msg = "Request error"
  /\ tresult.kind = "error"

(***************************************************************************)
(* C29.  In every report of get_overdue_tasks_report that is neither an    *)
(* error nor the result for an empty list, the summary agrees with the     *)
(* lists: overdue_count is the length of overdue_tasks, upcoming_count the *)
(* length of upcoming_tasks, total_active_tasks the number of fetched      *)
(* tasks whose status is not done, overdue_count + upcoming_count is at    *)
(* most total_active_tasks, and overdue_percentage is 0 when               *)
(* total_active_tasks is 0.                                                *)
(***************************************************************************)
C29_SummaryAgreesWithLists ==
  ReportDone =>
    /\ result.overdue_count = Len(result.overdue_tasks)
    /\ result.upcoming_count = Len(result.upcoming_tasks)
    /\ result.total_active_tasks =
         Cardinality({i \in 1..Len(Fetched(tasksReply)) :
                        Fetched(tasksReply)[i].status # "done"})
    /\ result.overdue_count + result.upcoming_count <= result.total_active_tasks
    /\ result.total_active_tasks = 0 => result.overdue_percentage = Zero

\* A report for a done task next to an overdue and an upcoming one.
C29_Witness ==
  /\ ReportDone
  /\ result.overdue_count > 0
  /\ result.upcoming_count > 0
  /\ result.total_active_tasks < Len(Fetched(tasksReply))

(***************************************************************************)
(* C30.  In every result of find_duplicate_notes that is not an error and  *)
(* was computed from 2 or more notes, total_notes_analyzed is the number   *)
(* of fetched notes, duplicate_groups_found is the number of pairs that    *)
(* met the threshold before the cap of 20, and so duplicate_groups_found   *)
(* is at least the length of duplicates, with equality exactly when at     *)
(* most 20 pairs met the threshold.                                        *)
(***************************************************************************)
C30_CountsAgreeWithDuplicates ==
  DuplicatesDone =>
    LET met == Len(KeptByScan(Fetched(notesReply), threshold))
    IN /\ result.total_notes_analyzed = Len(Fetched(notesReply))
       /\ result.duplicate_groups_found = met
       /\ result.duplicate_groups_found >= Len(result.duplicates)
       /\ (result.duplicate_groups_found = Len(result.duplicates)) <=> (met <= TopDuplicates)

\* Seven notes, 21 pairs that met the threshold, 20 of them listed.
C30_Witness ==
  /\ DuplicatesDone
  /\ result.total_notes_analyzed = MaxBulkNotes
  /\ result.duplicate_groups_found > TopDuplicates
  /\ Len(result.duplicates) < result.duplicate_groups_found

====
